---- MODULE Spec2Model ----
(***************************************************************************)
(* Model of the FinWise analytics core, finwise-frontend/lib/analysis.ts,  *)
(* and of the page state that feeds it (finwise-frontend/app/page.tsx):    *)
(* Spec.  ChatSpec is the chat of the page, ProxySpec the agent proxy.     *)
(*                                                                         *)
(* Strings are TLA+ strings, taken apart with Len, SubSeq and \o, so that  *)
(* keyword matching, lower-casing, date parsing and month-key formatting   *)
(* are computed character by character as the code computes them.         *)
(* Amounts are integers that count hundredths of the currency unit, so    *)
(* 12.35 is 1235; the arithmetic of the model is exact, and a number       *)
(* rounded by toFixed goes to the nearest step, upwards when it lies       *)
(* halfway.  An optional field of a Txn is a sequence of length 0          *)
(* (undefined) or 1 (the value).                                           *)
(***************************************************************************)
EXTENDS Integers, Sequences, FiniteSets, TLC

VARIABLES
  tz,            \* the runtime's local-time offset from UTC, in minutes
  transactions,  \* page.tsx: useState<FinTxn[]>, the list handed to the core
  call,          \* the last call made into the core: function, arguments, result
  prompt,        \* page.tsx: useState<string>(""), the chat input
  loading,       \* page.tsx: useState(false)
  reuseSession,  \* page.tsx: useState(true)
  sessionId,     \* page.tsx: useState<string>, a generated id
  messages,      \* page.tsx: the chat transcript, records of role and text
  error,         \* page.tsx: useState<string | null>(null)
  requests,      \* the POSTs to /api/ask made so far, in the order sent
  explicitPath,  \* the proxy's environment: ADK_RUN_PATH, optional
  openapi,       \* the upstream's /openapi.json: its paths, optional
  pc,            \* where the proxy's POST handler stands
  candidates,    \* POST: the candidate URLs collected so far
  contacted,     \* the candidate URLs fetched so far, in the order fetched
  lastResp,      \* POST: the status of the last 404 or 405 answer, optional
  response       \* what POST returns: status and x-adk-upstream, optional

coreVars == <<tz, transactions, call>>

chatVars == <<prompt, loading, reuseSession, sessionId, messages, error, requests>>

proxyVars == <<explicitPath, openapi, pc, candidates, contacted, lastResp, response>>

vars == <<coreVars, chatVars, proxyVars>>

----------------------------------------------------------------------------
(* Bounds *)

MaxTxns == 2

----------------------------------------------------------------------------
(* Optional values and strings *)

Undefined == <<>>

Some(v) == <<v>>

\* `x || ""` on an optional string: undefined and "" both give ""
OrEmpty(opt) == IF opt = Undefined THEN "" ELSE opt[1]

\* JavaScript truthiness of an optional string
Truthy(opt) == opt # Undefined /\ opt[1] # ""

CharAt(s, i) == SubSeq(s, i, i)

UpperCase == "ABCDEFGHIJKLMNOPQRSTUVWXYZ"

LowerCase == "abcdefghijklmnopqrstuvwxyz"

LowerChar(c) ==
  IF \E i \in 1..26 : CharAt(UpperCase, i) = c
    THEN CharAt(LowerCase, CHOOSE i \in 1..26 : CharAt(UpperCase, i) = c)
    ELSE c

RECURSIVE toLowerCase(_)
toLowerCase(s) ==
  IF Len(s) = 0 THEN ""
  ELSE LowerChar(CharAt(s, 1)) \o toLowerCase(SubSeq(s, 2, Len(s)))

\* String.prototype.includes: k occurs in d as a contiguous substring
includes(d, k) ==
  \E i \in 1..(Len(d) - Len(k) + 1) : SubSeq(d, i, i + Len(k) - 1) = k

\* Array.prototype.some((k) => d.includes(k)) over a keyword array
some(keywords, d) == \E i \in 1..Len(keywords) : includes(d, keywords[i])

----------------------------------------------------------------------------
(* categorize: the keyword arrays, in the order of the source *)

TransportKw == <<"uber", "ola", "taxi", "grab", "ride", "lyft", "transport">>

DiningKw == <<"restaurant", "dine", "cafe", "pizza", "dominos", "swiggy",
              "zomato", "food", "mcdonald">>

IncomeKw == <<"salary", "pay", "invoice", "income", "bonus", "wage">>

RentKw == <<"rent", "house", "flat", "apartment", "lease">>

ShoppingKw == <<"amazon", "flipkart", "shopping", "store", "mall", "retail">>

UtilitiesKw == <<"electricity", "water", "gas", "utility", "bill", "internet",
                 "phone">>

HealthcareKw == <<"health", "medical", "doctor", "hospital", "pharmacy",
                  "medicine">>

EntertainmentKw == <<"gym", "fitness", "sport", "yoga", "netflix", "spotify",
                     "subscription">>

EducationKw == <<"education", "course", "tuition", "school", "college", "book">>

InvestmentKw == <<"insurance", "investment", "stock", "mutual", "fund">>

\* the Rent rule tried before the Income rule
categorize_rentFirst(description) ==
  LET d == toLowerCase(OrEmpty(description)) IN
  IF some(TransportKw, d) THEN "Transport"
  ELSE IF some(DiningKw, d) THEN "Dining"
  ELSE IF some(RentKw, d) THEN "Rent"
  ELSE IF some(IncomeKw, d) THEN "Income"
  ELSE IF some(ShoppingKw, d) THEN "Shopping"
  ELSE IF some(UtilitiesKw, d) THEN "Utilities"
  ELSE IF some(HealthcareKw, d) THEN "Healthcare"
  ELSE IF some(EntertainmentKw, d) THEN "Entertainment"
  ELSE IF some(EducationKw, d) THEN "Education"
  ELSE IF some(InvestmentKw, d) THEN "Investment"
  ELSE "Other"

\* the Dining rule tried before the Transport rule
categorize_diningFirst(description) ==
  LET d == toLowerCase(OrEmpty(description)) IN
  IF some(DiningKw, d) THEN "Dining"
  ELSE IF some(TransportKw, d) THEN "Transport"
  ELSE IF some(IncomeKw, d) THEN "Income"
  ELSE IF some(RentKw, d) THEN "Rent"
  ELSE IF some(ShoppingKw, d) THEN "Shopping"
  ELSE IF some(UtilitiesKw, d) THEN "Utilities"
  ELSE IF some(HealthcareKw, d) THEN "Healthcare"
  ELSE IF some(EntertainmentKw, d) THEN "Entertainment"
  ELSE IF some(EducationKw, d) THEN "Education"
  ELSE IF some(InvestmentKw, d) THEN "Investment"
  ELSE "Other"

\* the description matched without lower-casing it
categorize_caseSensitive(description) ==
  LET d == OrEmpty(description) IN
  IF some(TransportKw, d) THEN "Transport"
  ELSE IF some(DiningKw, d) THEN "Dining"
  ELSE IF some(IncomeKw, d) THEN "Income"
  ELSE IF some(RentKw, d) THEN "Rent"
  ELSE IF some(ShoppingKw, d) THEN "Shopping"
  ELSE IF some(UtilitiesKw, d) THEN "Utilities"
  ELSE IF some(HealthcareKw, d) THEN "Healthcare"
  ELSE IF some(EntertainmentKw, d) THEN "Entertainment"
  ELSE IF some(EducationKw, d) THEN "Education"
  ELSE IF some(InvestmentKw, d) THEN "Investment"
  ELSE "Other"

categorize(description) ==
  LET d == toLowerCase(OrEmpty(description)) IN
  IF some(TransportKw, d) THEN "Transport"
  ELSE IF some(DiningKw, d) THEN "Dining"
  ELSE IF some(IncomeKw, d) THEN "Income"
  ELSE IF some(RentKw, d) THEN "Rent"
  ELSE IF some(ShoppingKw, d) THEN "Shopping"
  ELSE IF some(UtilitiesKw, d) THEN "Utilities"
  ELSE IF some(HealthcareKw, d) THEN "Healthcare"
  ELSE IF some(EntertainmentKw, d) THEN "Entertainment"
  ELSE IF some(EducationKw, d) THEN "Education"
  ELSE IF some(InvestmentKw, d) THEN "Investment"
  ELSE "Other"

----------------------------------------------------------------------------
(* Objects: a JavaScript object with string keys is the sequence of its    *)
(* entries [k, v] in insertion order, which is the order Object.entries    *)
(* and Object.keys enumerate.                                              *)

HasKey(obj, k) == \E i \in 1..Len(obj) : obj[i].k = k

Get(obj, k) == obj[CHOOSE i \in 1..Len(obj) : obj[i].k = k].v

\* obj[k] ?? dflt
GetOr(obj, k, dflt) == IF HasKey(obj, k) THEN Get(obj, k) ELSE dflt

\* obj[k] = v: an existing key keeps its position, a new key goes last
Put(obj, k, v) ==
  IF HasKey(obj, k)
    THEN LET at == CHOOSE i \in 1..Len(obj) : obj[i].k = k
         IN SubSeq(obj, 1, at - 1) \o <<[k |-> k, v |-> v]>>
              \o SubSeq(obj, at + 1, Len(obj))
    ELSE Append(obj, [k |-> k, v |-> v])

Keys(obj) == [i \in 1..Len(obj) |-> obj[i].k]

Abs(x) == IF x < 0 THEN -x ELSE x

\* `x || 0` on a finite number
OrZero(x) == IF x = 0 THEN 0 ELSE x

\* a quotient a / b that need not be an integer
Quot(a, b) == [num |-> a, den |-> b]

\* hundredths in one currency unit: amounts count hundredths
Unit == 100

----------------------------------------------------------------------------
(* Dates: new Date(string), getFullYear, getMonth, and the month key *)

Digits == "0123456789"

IsDigit(c) == \E n \in 0..9 : CharAt(Digits, n + 1) = c

DigitVal(c) == CHOOSE n \in 0..9 : CharAt(Digits, n + 1) = c

RECURSIVE ParseNat(_)
ParseNat(s) ==
  IF Len(s) = 0 THEN 0
  ELSE 10 * ParseNat(SubSeq(s, 1, Len(s) - 1)) + DigitVal(CharAt(s, Len(s)))

IsLeap(y) == (y % 4 = 0 /\ y % 100 # 0) \/ y % 400 = 0

DaysInMonth(y, m) ==
  IF m = 2 THEN (IF IsLeap(y) THEN 29 ELSE 28)
  ELSE IF m \in {4, 6, 9, 11} THEN 30 ELSE 31

InvalidDate == [valid |-> FALSE, year |-> 0, month |-> 0, day |-> 0]

\* the date-only ISO form YYYY-MM-DD
IsIsoDate(s) ==
  /\ Len(s) = 10
  /\ CharAt(s, 5) = "-"
  /\ CharAt(s, 8) = "-"
  /\ \A i \in {1, 2, 3, 4, 6, 7, 9, 10} : IsDigit(CharAt(s, i))

\* new Date(s): a date-only ISO string is midnight UTC of that calendar day;
\* a string that is not a date gives an invalid Date (getTime() is NaN).
\* The result is the UTC calendar day.
NewDate(s) ==
  IF ~IsIsoDate(s) THEN InvalidDate
  ELSE LET y == ParseNat(SubSeq(s, 1, 4))
           m == ParseNat(SubSeq(s, 6, 7))
           d == ParseNat(SubSeq(s, 9, 10))
       IN IF m \in 1..12 /\ d \in 1..DaysInMonth(y, m)
            THEN [valid |-> TRUE, year |-> y, month |-> m, day |-> d]
            ELSE InvalidDate

\* the calendar day of midnight UTC in local time: the getters of Date read
\* local time, so west of UTC (tz < 0) it is the day before
LocalDay(dt) ==
  IF tz >= 0 THEN dt
  ELSE IF dt.day > 1 THEN [dt EXCEPT !.day = dt.day - 1]
  ELSE IF dt.month > 1
    THEN [dt EXCEPT !.month = dt.month - 1,
                    !.day = DaysInMonth(dt.year, dt.month - 1)]
  ELSE [dt EXCEPT !.year = dt.year - 1, !.month = 12, !.day = 31]

getFullYear(dt) == LocalDay(dt).year

\* zero-based, as in JavaScript
getMonth(dt) == LocalDay(dt).month - 1

\* String(n) for a natural number
RECURSIVE String(_)
String(n) ==
  IF n < 10 THEN CharAt(Digits, n + 1)
  ELSE String(n \div 10) \o CharAt(Digits, (n % 10) + 1)

RECURSIVE padStart(_, _, _)
padStart(s, width, fill) ==
  IF Len(s) >= width THEN s ELSE padStart(fill \o s, width, fill)

\* `${d.getFullYear()}-${String(d.getMonth() + 1).padStart(2, "0")}`
\* (the getters of an invalid Date return NaN)
monthKey(dt) ==
  IF dt.valid
    THEN String(getFullYear(dt)) \o "-" \o padStart(String(getMonth(dt) + 1), 2, "0")
    ELSE "NaN-NaN"

\* t.date ? new Date(t.date) : undefined, then !d || isNaN(d.getTime())
\* the isNaN(d.getTime()) test forgotten
dateSkipped_onlyMissing(t) == ~Truthy(t.date)

dateSkipped(t) == ~Truthy(t.date) \/ ~NewDate(t.date[1]).valid

\* the order of the characters a month key is made of
KeyChars == "-0123456789Na"

CharRank(c) == CHOOSE i \in 1..Len(KeyChars) : CharAt(KeyChars, i) = c

\* a.localeCompare(b) on month keys: -1, 0 or 1
RECURSIVE localeCompare(_, _)
localeCompare(a, b) ==
  IF Len(a) = 0 /\ Len(b) = 0 THEN 0
  ELSE IF Len(a) = 0 THEN -1
  ELSE IF Len(b) = 0 THEN 1
  ELSE IF CharRank(CharAt(a, 1)) < CharRank(CharAt(b, 1)) THEN -1
  ELSE IF CharRank(CharAt(a, 1)) > CharRank(CharAt(b, 1)) THEN 1
  ELSE localeCompare(SubSeq(a, 2, Len(a)), SubSeq(b, 2, Len(b)))

----------------------------------------------------------------------------
(* analyzeTransactions *)

\* reduce((a, b) => a + b, 0).  A loop over the records is evaluated by
\* halves, here and below: the steps and their order are those of the loop.
\* The object built up to the middle is looked at before the second half
\* starts, so that the depth of the evaluation stays logarithmic in the
\* length of the list
RECURSIVE SumSeq(_)
SumSeq(s) ==
  IF Len(s) = 0 THEN 0
  ELSE IF Len(s) = 1 THEN s[1]
  ELSE LET mid == Len(s) \div 2
       IN SumSeq(SubSeq(s, 1, mid)) + SumSeq(SubSeq(s, mid + 1, Len(s)))

amounts(txns) == [i \in 1..Len(txns) |-> OrZero(txns[i].amount)]

\* the net taken as income minus expense
netTotal_incomeMinusExpense(txns) ==
  SumSeq([i \in 1..Len(txns) |->
            IF txns[i].type = Some("income") \/ txns[i].amount > 0
              THEN txns[i].amount ELSE 0])
  - SumSeq([i \in 1..Len(txns) |-> IF txns[i].amount < 0 THEN -txns[i].amount ELSE 0])

netTotal(txns) == SumSeq(amounts(txns))

avgAmount(txns) ==
  Quot(SumSeq(amounts(txns)), IF Len(txns) = 0 THEN 1 ELSE Len(txns))

\* income told by the sign alone
isIncome_signOnly(t) == t.amount > 0

isIncome(t) == t.type = Some("income") \/ t.amount > 0

isExpense(t) == t.amount < 0

incomeTotal(txns) ==
  SumSeq([i \in 1..Len(txns) |-> IF isIncome(txns[i]) THEN txns[i].amount ELSE 0])

expenseTotal(txns) ==
  SumSeq([i \in 1..Len(txns) |-> IF isExpense(txns[i]) THEN -txns[i].amount ELSE 0])

\* t.category || categorize(t.description)
categoryOf(t) == IF Truthy(t.category) THEN t.category[1] ELSE categorize(t.description)

\* the category sum overwritten instead of accumulated
byCategoryStep_overwrite(byCat, t) ==
  Put(byCat, categoryOf(t), OrZero(t.amount))

\* the body of the loop: byCategory[cat] = (byCategory[cat] ?? 0) + (t.amount || 0)
byCategoryStep(byCat, t) ==
  LET cat == categoryOf(t)
  IN Put(byCat, cat, GetOr(byCat, cat, 0) + OrZero(t.amount))

\* the loop over the records lo..hi, with the overwriting body
RECURSIVE byCategoryLoop_overwrite(_, _, _, _)
byCategoryLoop_overwrite(byCat, txns, lo, hi) ==
  IF lo > hi THEN byCat
  ELSE IF lo = hi THEN byCategoryStep_overwrite(byCat, txns[lo])
  ELSE LET mid == (lo + hi) \div 2
           upToMid == byCategoryLoop_overwrite(byCat, txns, lo, mid)
       IN IF Len(upToMid) = 0 THEN byCategoryLoop_overwrite(<<>>, txns, mid + 1, hi)
          ELSE byCategoryLoop_overwrite(upToMid, txns, mid + 1, hi)

\* the loop over the records lo..hi, from the object byCat on
RECURSIVE byCategoryLoop(_, _, _, _)
byCategoryLoop(byCat, txns, lo, hi) ==
  IF lo > hi THEN byCat
  ELSE IF lo = hi THEN byCategoryStep(byCat, txns[lo])
  ELSE LET mid == (lo + hi) \div 2
           upToMid == byCategoryLoop(byCat, txns, lo, mid)
       IN IF Len(upToMid) = 0 THEN byCategoryLoop(<<>>, txns, mid + 1, hi)
          ELSE byCategoryLoop(upToMid, txns, mid + 1, hi)

byCategory_overwrite(txns) == byCategoryLoop_overwrite(<<>>, txns, 1, Len(txns))

byCategory(txns) == byCategoryLoop(<<>>, txns, 1, Len(txns))

\* no early return and no `|| 1` on the divisor
analyzeTransactions_noGuard(txns) ==
  [totalTxns |-> Len(txns),
   netTotal |-> netTotal(txns),
   avgAmount |-> Quot(SumSeq(amounts(txns)), Len(txns)),
   incomeTotal |-> incomeTotal(txns),
   expenseTotal |-> expenseTotal(txns),
   byCategory |-> byCategory(txns)]

analyzeTransactions(txns) ==
  IF Len(txns) = 0
    THEN [totalTxns |-> 0, netTotal |-> 0, avgAmount |-> Quot(0, 1),
          incomeTotal |-> 0, expenseTotal |-> 0, byCategory |-> <<>>]
    ELSE [totalTxns |-> Len(txns),
          netTotal |-> netTotal(txns),
          avgAmount |-> avgAmount(txns),
          incomeTotal |-> incomeTotal(txns),
          expenseTotal |-> expenseTotal(txns),
          byCategory |-> byCategory(txns)]

----------------------------------------------------------------------------
(* groupByMonth *)

\* the expense side fed the signed amount
addToBucket_signed(entry, t) ==
  IF t.amount >= 0
    THEN [income |-> entry.income + t.amount, expense |-> entry.expense,
          net |-> entry.net + t.amount]
    ELSE [income |-> entry.income, expense |-> entry.expense + t.amount,
          net |-> entry.net + t.amount]

\* if (t.amount >= 0) entry.income += t.amount; else entry.expense += -t.amount;
\* entry.net += t.amount
addToBucket(entry, t) ==
  IF t.amount >= 0
    THEN [income |-> entry.income + t.amount, expense |-> entry.expense,
          net |-> entry.net + t.amount]
    ELSE [income |-> entry.income, expense |-> entry.expense + (-t.amount),
          net |-> entry.net + t.amount]

\* the body of the loop
byMonthStep(byMonth, t) ==
  IF dateSkipped(t) THEN byMonth
  ELSE LET key == monthKey(NewDate(t.date[1]))
           entry == GetOr(byMonth, key, [income |-> 0, expense |-> 0, net |-> 0])
       IN Put(byMonth, key, addToBucket(entry, t))

\* the loop over the records lo..hi, from the object byMonth on
RECURSIVE byMonthLoop(_, _, _, _)
byMonthLoop(byMonth, txns, lo, hi) ==
  IF lo > hi THEN byMonth
  ELSE IF lo = hi THEN byMonthStep(byMonth, txns[lo])
  ELSE LET mid == (lo + hi) \div 2
           upToMid == byMonthLoop(byMonth, txns, lo, mid)
       IN IF Len(upToMid) = 0 THEN byMonthLoop(<<>>, txns, mid + 1, hi)
          ELSE byMonthLoop(upToMid, txns, mid + 1, hi)

byMonthCompare(a, b) == localeCompare(a.month, b.month)

\* .sort((a, b) => a.month.localeCompare(b.month)); Array.prototype.sort is
\* stable: x goes after every element that does not compare greater than x
RECURSIVE insertByMonth(_, _)
insertByMonth(sorted, x) ==
  IF Len(sorted) = 0 THEN <<x>>
  ELSE IF byMonthCompare(sorted[Len(sorted)], x) <= 0 THEN Append(sorted, x)
  ELSE Append(insertByMonth(SubSeq(sorted, 1, Len(sorted) - 1), x),
              sorted[Len(sorted)])

RECURSIVE sortByMonth(_)
sortByMonth(s) ==
  IF Len(s) = 0 THEN <<>>
  ELSE insertByMonth(sortByMonth(SubSeq(s, 1, Len(s) - 1)), s[Len(s)])

\* Object.entries(byMonth).map(([month, v]) => ({ month, ...v }))
monthEntries(byMonth) ==
  [i \in 1..Len(byMonth) |->
     [month |-> byMonth[i].k, income |-> byMonth[i].v.income,
      expense |-> byMonth[i].v.expense, net |-> byMonth[i].v.net]]

\* the trailing sort left out
groupByMonth_unsorted(txns) ==
  monthEntries(byMonthLoop(<<>>, txns, 1, Len(txns)))

groupByMonth(txns) ==
  sortByMonth(monthEntries(byMonthLoop(<<>>, txns, 1, Len(txns))))

----------------------------------------------------------------------------
(* computeAlerts.  An alert is its kind and, where the message names one,  *)
(* the category; the figures quoted in the message text are left out.      *)

Alert(kind, cat) == [kind |-> kind, cat |-> cat]

RECURSIVE Pow10(_)
Pow10(n) == IF n = 0 THEN 1 ELSE 10 * Pow10(n - 1)

RECURSIVE Gcd(_, _)
Gcd(a, b) == IF b = 0 THEN a ELSE Gcd(b, a % b)

\* (num / den).toFixed(digits) for den > 0, as a count of 10^-digits: the
\* sign apart, the nearest count, the larger one from halfway; the fraction
\* is reduced first
toFixed(num, den, digits) ==
  LET g == Gcd(den, Pow10(digits))
      scale == Pow10(digits) \div g
      d == den \div g
      n == (2 * Abs(num) * scale + d) \div (2 * d)
  IN IF num < 0 THEN -n ELSE n

\* rule 1 with the tier decided by the rate as computed, not as printed
budgetAlerts_unroundedRate(summary) ==
  IF summary.expenseTotal > summary.incomeTotal
    THEN <<Alert("overspending", "")>>
  ELSE IF summary.incomeTotal > 0
    THEN LET saved == summary.incomeTotal - summary.expenseTotal
         IN IF saved * 100 > 20 * summary.incomeTotal
              THEN <<Alert("excellent", "")>>
            ELSE IF saved * 100 > 10 * summary.incomeTotal
              THEN <<Alert("good", "")>>
            ELSE <<Alert("aim_higher", "")>>
  ELSE <<>>

\* rule 1: overspending, or the savings-rate tier
budgetAlerts(summary) ==
  IF summary.expenseTotal > summary.incomeTotal
    THEN <<Alert("overspending", "")>>
  ELSE IF summary.incomeTotal > 0
    THEN LET savingsRate ==
               toFixed((summary.incomeTotal - summary.expenseTotal) * 100,
                       summary.incomeTotal, 1)
         IN IF savingsRate > 200 THEN <<Alert("excellent", "")>>
            ELSE IF savingsRate > 100 THEN <<Alert("good", "")>>
            ELSE <<Alert("aim_higher", "")>>
  ELSE <<>>

\* rule 2 with any fall of the net counted as a drop
trendAlerts_anyFall(monthly) ==
  IF Len(monthly) >= 2
    THEN LET last == monthly[Len(monthly)]
             prev == monthly[Len(monthly) - 1]
             deltaNet == last.net - prev.net
         IN IF prev.net > 0 /\ last.net < prev.net
              THEN <<Alert("net_drop", "")>>
            ELSE IF deltaNet > 0 THEN <<Alert("positive_trend", "")>>
            ELSE <<>>
    ELSE <<>>

\* rule 2: the nets of the last two month buckets
trendAlerts(monthly) ==
  IF Len(monthly) >= 2
    THEN LET last == monthly[Len(monthly)]
             prev == monthly[Len(monthly) - 1]
             deltaNet == last.net - prev.net
         IN IF prev.net > 0 /\ 10 * last.net < prev.net * 8
              THEN <<Alert("net_drop", "")>>
            ELSE IF deltaNet > 0 THEN <<Alert("positive_trend", "")>>
            ELSE <<>>
    ELSE <<>>

\* the body of the loop
byMonthCatStep(byMonthCat, t) ==
  IF dateSkipped(t) THEN byMonthCat
  ELSE LET m == monthKey(NewDate(t.date[1]))
           cat == categoryOf(t)
           ofMonth == GetOr(byMonthCat, m, <<>>)
       IN Put(byMonthCat, m,
              Put(ofMonth, cat, GetOr(ofMonth, cat, 0) + OrZero(t.amount)))

\* the loop over the records lo..hi, from the object byMonthCat on
RECURSIVE byMonthCatLoop(_, _, _, _)
byMonthCatLoop(byMonthCat, txns, lo, hi) ==
  IF lo > hi THEN byMonthCat
  ELSE IF lo = hi THEN byMonthCatStep(byMonthCat, txns[lo])
  ELSE LET mid == (lo + hi) \div 2
           upToMid == byMonthCatLoop(byMonthCat, txns, lo, mid)
       IN IF Len(upToMid) = 0 THEN byMonthCatLoop(<<>>, txns, mid + 1, hi)
          ELSE byMonthCatLoop(upToMid, txns, mid + 1, hi)

\* Object.keys(byMonthCat).sort(): the default sort compares code units,
\* which orders month keys as localeCompare does
RECURSIVE insertKey(_, _)
insertKey(sorted, x) ==
  IF Len(sorted) = 0 THEN <<x>>
  ELSE IF localeCompare(sorted[Len(sorted)], x) <= 0 THEN Append(sorted, x)
  ELSE Append(insertKey(SubSeq(sorted, 1, Len(sorted) - 1), x), sorted[Len(sorted)])

RECURSIVE sortKeys(_)
sortKeys(s) ==
  IF Len(s) = 0 THEN <<>>
  ELSE insertKey(sortKeys(SubSeq(s, 1, Len(s) - 1)), s[Len(s)])

\* new Set([...xs, ...ys]) in iteration order: first occurrences only
RECURSIVE dedupe(_)
dedupe(s) ==
  IF Len(s) = 0 THEN <<>>
  ELSE LET front == dedupe(SubSeq(s, 1, Len(s) - 1))
       IN IF \E i \in 1..Len(front) : front[i] = s[Len(s)]
            THEN front ELSE Append(front, s[Len(s)])

SpikeFloor == 500

\* the body of the loop with the factors 1.3 and 0.7 themselves counted in
categoryAlert_inclusive(c, va, vb) ==
  IF 10 * vb >= va * 13 /\ vb > SpikeFloor * Unit
    THEN <<Alert("spike", c)>>
  ELSE IF va > 0 /\ 10 * vb <= va * 7 /\ va > SpikeFloor * Unit
    THEN <<Alert("reduced", c)>>
  ELSE <<>>

\* the body of the loop over the categories: what it pushes for category c
categoryAlert(c, va, vb) ==
  IF 10 * vb > va * 13 /\ vb > SpikeFloor * Unit
    THEN <<Alert("spike", c)>>
  ELSE IF va > 0 /\ 10 * vb < va * 7 /\ va > SpikeFloor * Unit
    THEN <<Alert("reduced", c)>>
  ELSE <<>>

RECURSIVE categoryAlertsLoop(_, _, _, _)
categoryAlertsLoop(cats, n, catsA, catsB) ==
  IF n = 0 THEN <<>>
  ELSE LET c == cats[n]
           va == Abs(GetOr(catsA, c, 0))
           vb == Abs(GetOr(catsB, c, 0))
       IN categoryAlertsLoop(cats, n - 1, catsA, catsB)
            \o categoryAlert(c, va, vb)

\* rule 3: category sums of the last two months
categoryAlerts(txns) ==
  LET byMonthCat == byMonthCatLoop(<<>>, txns, 1, Len(txns))
      months == sortKeys(Keys(byMonthCat))
  IN IF Len(months) >= 2
       THEN LET a == months[Len(months) - 1]
                b == months[Len(months)]
                cats == dedupe(Keys(Get(byMonthCat, a)) \o Keys(Get(byMonthCat, b)))
            IN categoryAlertsLoop(cats, Len(cats), Get(byMonthCat, a), Get(byMonthCat, b))
       ELSE <<>>

\* .sort((a, b) => a[1] - b[1]) on category entries, stable
RECURSIVE insertByValue(_, _)
insertByValue(sorted, x) ==
  IF Len(sorted) = 0 THEN <<x>>
  ELSE IF sorted[Len(sorted)].v - x.v <= 0 THEN Append(sorted, x)
  ELSE Append(insertByValue(SubSeq(sorted, 1, Len(sorted) - 1), x),
              sorted[Len(sorted)])

RECURSIVE sortByValue(_)
sortByValue(s) ==
  IF Len(s) = 0 THEN <<>>
  ELSE insertByValue(sortByValue(SubSeq(s, 1, Len(s) - 1)), s[Len(s)])

isNegativeEntry(e) == e.v < 0

\* .slice(0, n)
slice0(s, n) == SubSeq(s, 1, IF Len(s) < n THEN Len(s) ELSE n)

TopExpenseFloor == 1000

\* rule 4 on the first category listed with a negative sum
topExpenseAlerts_firstListed(summary) ==
  LET categorySpending ==
        slice0(SelectSeq(summary.byCategory, isNegativeEntry), 3)
  IN IF Len(categorySpending) > 0 /\ Abs(categorySpending[1].v) > TopExpenseFloor * Unit
       THEN <<Alert("top_expense", categorySpending[1].k)>>
       ELSE <<>>

\* rule 4: the largest expense category
topExpenseAlerts(summary) ==
  LET categorySpending ==
        slice0(sortByValue(SelectSeq(summary.byCategory, isNegativeEntry)), 3)
  IN IF Len(categorySpending) > 0 /\ Abs(categorySpending[1].v) > TopExpenseFloor * Unit
       THEN <<Alert("top_expense", categorySpending[1].k)>>
       ELSE <<>>

\* the top-expense advisory pushed first
computeAlerts_topExpenseFirst(txns) ==
  IF Len(txns) = 0 THEN <<Alert("no_data", "")>>
  ELSE LET summary == analyzeTransactions(txns)
           alerts == topExpenseAlerts(summary) \o budgetAlerts(summary)
                       \o trendAlerts(groupByMonth(txns))
                       \o categoryAlerts(txns)
       IN IF Len(alerts) > 0 THEN alerts ELSE <<Alert("all_clear", "")>>

\* the alerts as collected, with no message for an empty collection
computeAlerts_asCollected(txns) ==
  IF Len(txns) = 0 THEN <<Alert("no_data", "")>>
  ELSE LET summary == analyzeTransactions(txns)
       IN budgetAlerts(summary) \o trendAlerts(groupByMonth(txns))
            \o categoryAlerts(txns) \o topExpenseAlerts(summary)

computeAlerts(txns) ==
  IF Len(txns) = 0 THEN <<Alert("no_data", "")>>
  ELSE LET summary == analyzeTransactions(txns)
           alerts == budgetAlerts(summary) \o trendAlerts(groupByMonth(txns))
                       \o categoryAlerts(txns) \o topExpenseAlerts(summary)
       IN IF Len(alerts) > 0 THEN alerts ELSE <<Alert("all_clear", "")>>

----------------------------------------------------------------------------
(* forecastSavings.  estimatedSavings counts hundredths, as toFixed(2)     *)
(* leaves it.                                                              *)

\* the point Array.from builds at index i - 1, numbered by that index
forecastPoint_zeroIndexed(avgMonthlyNet, i) ==
  [month |-> i - 1,
   estimatedSavings |-> toFixed(avgMonthlyNet * i, Unit, 2)]

\* the point Array.from builds at index i - 1
forecastPoint(avgMonthlyNet, i) ==
  [month |-> i,
   estimatedSavings |-> toFixed(avgMonthlyNet * i, Unit, 2)]

\* the net divided by the number of months present
forecastSavings_perMonthPresent(txns, months) ==
  LET net == SumSeq(amounts(txns))
      present == Len(groupByMonth(txns))
      avgMonthlyNet == IF present = 0 THEN net ELSE net \div present
  IN [avgMonthlyNet |-> avgMonthlyNet,
      forecast |-> [i \in 1..months |-> forecastPoint(avgMonthlyNet, i)]]

forecastSavings(txns, months) ==
  LET net == SumSeq(amounts(txns))
      avgMonthlyNet == net
  IN [avgMonthlyNet |-> avgMonthlyNet,
      forecast |-> [i \in 1..months |-> forecastPoint(avgMonthlyNet, i)]]

----------------------------------------------------------------------------
(* buildSummaryContext.  The figures of meta and byCategory count          *)
(* hundredths, as toFixed(2) leaves them.                                  *)

\* txns.slice(0, 50)
SampleLimit == 50

\* forecastSavings(txns, 3)
ContextHorizon == 3

\* the figures of a summary, rounded
contextMeta(summary) ==
  [totalTxns |-> summary.totalTxns,
   netTotal |-> toFixed(summary.netTotal, Unit, 2),
   avgAmount |-> toFixed(summary.avgAmount.num, summary.avgAmount.den * Unit, 2),
   incomeTotal |-> toFixed(summary.incomeTotal, Unit, 2),
   expenseTotal |-> toFixed(summary.expenseTotal, Unit, 2)]

\* Object.fromEntries(Object.entries(byCategory).map([k, +v.toFixed(2)]))
contextByCategory(byCat) ==
  [i \in 1..Len(byCat) |-> [k |-> byCat[i].k, v |-> toFixed(byCat[i].v, Unit, 2)]]

\* the summary taken of the samples, not of the list
buildSummaryContext_ofSamples(txns) ==
  LET topSamples == slice0(txns, SampleLimit)
      summary == analyzeTransactions(topSamples)
      monthly == groupByMonth(txns)
      forecast == forecastSavings(txns, ContextHorizon).forecast
  IN [meta |-> contextMeta(summary),
      byCategory |-> contextByCategory(summary.byCategory),
      byMonth |-> monthly,
      forecast |-> forecast,
      samples |-> topSamples,
      guidance |-> "Offer practical, data-grounded suggestions. If unsure, ask a clarifying question."]

buildSummaryContext(txns) ==
  LET summary == analyzeTransactions(txns)
      monthly == groupByMonth(txns)
      forecast == forecastSavings(txns, ContextHorizon).forecast
      topSamples == slice0(txns, SampleLimit)
  IN [meta |-> contextMeta(summary),
      byCategory |-> contextByCategory(summary.byCategory),
      byMonth |-> monthly,
      forecast |-> forecast,
      samples |-> topSamples,
      guidance |-> "Offer practical, data-grounded suggestions. If unsure, ask a clarifying question."]

----------------------------------------------------------------------------
(* suggestBudget.  The need that remains and a reduction are counted in    *)
(* hundredths of a hundredth (1 / Percent of the amounts' step), which     *)
(* holds a tenth of every amount exactly; the returned fields count        *)
(* hundredths, as toFixed(2) leaves them.                                  *)

Max(a, b) == IF a > b THEN a ELSE b

Min(a, b) == IF a < b THEN a ELSE b

\* spend * 0.1 is CutPercent / Percent of the spend
CutPercent == 10

Percent == 100

\* income minus expense, negative when more was spent than earned
currentSavings_unclamped(summary) == summary.incomeTotal - summary.expenseTotal

currentSavings(summary) == Max(0, summary.incomeTotal - summary.expenseTotal)

\* the categories in the order the summary holds them
spendingCandidates_unsorted(summary) ==
  SelectSeq(summary.byCategory, isNegativeEntry)

\* Object.entries(summary.byCategory).filter(v < 0).sort(a[1] - b[1])
spendingCandidates(summary) ==
  sortByValue(SelectSeq(summary.byCategory, isNegativeEntry))

\* all that is still needed, whatever the spend
reduction_uncapped(spend, remain) == remain

\* a tenth of the spend, whatever is still needed
reduction_tenth(spend, remain) == spend * CutPercent

\* Math.min(spend * 0.1, remain)
reduction(spend, remain) == Min(spend * CutPercent, remain)

suggestion(category, spend, remain) ==
  [category |-> category,
   currentSpend |-> spend,
   suggestedCut |-> toFixed(reduction(spend, remain), Percent * Unit, 2),
   newEstimatedSpend |->
     toFixed(spend * Percent - reduction(spend, remain), Percent * Unit, 2)]

\* the for loop from candidate i on
RECURSIVE suggestionsLoop(_, _, _)
suggestionsLoop(categorySpending, i, remain) ==
  IF i > Len(categorySpending) \/ remain <= 0 THEN <<>>
  ELSE LET category == categorySpending[i].k
           spend == Abs(categorySpending[i].v)
       IN <<suggestion(category, spend, remain)>>
            \o suggestionsLoop(categorySpending, i + 1,
                               remain - reduction(spend, remain))

\* the values the local reduction takes, from candidate i on
RECURSIVE reductionsLoop(_, _, _)
reductionsLoop(categorySpending, i, remain) ==
  IF i > Len(categorySpending) \/ remain <= 0 THEN <<>>
  ELSE LET spend == Abs(categorySpending[i].v)
       IN <<reduction(spend, remain)>>
            \o reductionsLoop(categorySpending, i + 1,
                              remain - reduction(spend, remain))

\* the reductions of a call, in 1 / Percent of a hundredth
suggestBudgetReductions(txns, targetSavings) ==
  LET summary == analyzeTransactions(txns)
      needed == Max(0, targetSavings - currentSavings(summary))
  IN reductionsLoop(spendingCandidates(summary), 1, needed * Percent)

suggestBudget(txns, targetSavings) ==
  LET summary == analyzeTransactions(txns)
      needed == Max(0, targetSavings - currentSavings(summary))
  IN [currentSavings |-> toFixed(currentSavings(summary), Unit, 2),
      targetSavings |-> toFixed(targetSavings, Unit, 2),
      neededToSave |-> toFixed(needed, Unit, 2),
      suggestions |->
        suggestionsLoop(spendingCandidates(summary), 1, needed * Percent)]

----------------------------------------------------------------------------
(* generateGoalPlan.  The need that remains and a cut are counted in       *)
(* 1 / (Percent * months) of a hundredth, which holds goalAmount / months  *)
(* and a tenth of every amount exactly.                                    *)

\* only the months are looked at
goalGuard_monthsOnly(goalAmount, months) == months <= 0

\* months <= 0 || goalAmount <= 0
goalGuard(goalAmount, months) == months <= 0 \/ goalAmount <= 0

\* .slice(0, 5)
TipCandidates == 5

\* every category that was spent on
goalCandidates_all(summary) ==
  sortByValue(SelectSeq(summary.byCategory, isNegativeEntry))

\* Object.entries(summary.byCategory).filter(v < 0).sort(a[1] - b[1]).slice(0, 5)
goalCandidates(summary) ==
  slice0(sortByValue(SelectSeq(summary.byCategory, isNegativeEntry)),
         TipCandidates)

\* Math.min(absAmt * 0.1, remain)
goalCut(absAmt, remain, months) == Min(absAmt * CutPercent * months, remain)

tip(category, absAmt, cut, months) ==
  [category |-> category,
   currentMonthly |-> toFixed(absAmt, Unit, 2),
   suggestedMonthlyCut |-> toFixed(cut, Percent * months * Unit, 2)]

\* the for loop from candidate i on
RECURSIVE tipsLoop(_, _, _, _)
tipsLoop(categorySpending, i, remain, months) ==
  IF i > Len(categorySpending) \/ remain <= 0 THEN <<>>
  ELSE LET category == categorySpending[i].k
           absAmt == Abs(categorySpending[i].v)
           cut == goalCut(absAmt, remain, months)
       IN IF cut > 0
            THEN <<tip(category, absAmt, cut, months)>>
                   \o tipsLoop(categorySpending, i + 1, remain - cut, months)
            ELSE tipsLoop(categorySpending, i + 1, remain, months)

generateGoalPlan(txns, goalAmount, months) ==
  IF goalGuard(goalAmount, months)
    THEN [goalAmount |-> 0, months |-> 0, monthlyTarget |-> 0,
          weeklyTarget |-> 0, tips |-> <<>>]
  ELSE LET summary == analyzeTransactions(txns)
       IN [goalAmount |-> toFixed(goalAmount, Unit, 2),
           months |-> months,
           monthlyTarget |-> toFixed(goalAmount, months * Unit, 2),
           weeklyTarget |-> toFixed(goalAmount, months * 4 * Unit, 2),
           tips |-> tipsLoop(goalCandidates(summary), 1,
                             goalAmount * Percent, months)]

----------------------------------------------------------------------------
(* Inputs *)

Txn(date, amount, description, category, type) ==
  [date |-> date, amount |-> amount, description |-> description,
   category |-> category, type |-> type]

\* the three-record scenario
UberRide == Txn(Some("2024-01-05"), -50 * Unit, Some("Uber ride"), Undefined, Undefined)

Salary == Txn(Some("2024-01-10"), 2000 * Unit, Undefined, Undefined, Some("income"))

RentPayment == Txn(Some("2024-02-01"), -1200 * Unit, Some("Rent payment"), Undefined, Undefined)

Scenario == <<UberRide, Salary, RentPayment>>

\* type "income" on a negative amount
SalaryCorrection ==
  Txn(Some("2024-03-15"), -100 * Unit, Some("Salary correction"), Undefined, Some("income"))

\* dates that do not parse, and no date at all
BadMonth == Txn(Some("2024-13-01"), 500 * Unit, Some(""), Some(""), Undefined)

NotADate == Txn(Some("not a date"), 70 * Unit, Some("UBER Pizza"), Undefined, Undefined)

NoDate == Txn(Undefined, -30 * Unit, Some("xyz"), Some("Groceries"), Undefined)

\* the rows a parsed CSV can hold
Rows == {UberRide, Salary, RentPayment, SalaryCorrection, BadMonth, NotADate, NoDate}

\* a record of a dropped file: category and amount only
Entry(category, amount) == Txn(Undefined, amount, Some(""), Some(category), Undefined)

\* six expense categories, Groceries in two records, two tenths that end in
\* half a hundredth (200.05 and 12.35), no income
ExpensesFile ==
  << Entry("Groceries", -400 * Unit), Entry("Rent", -1200 * Unit),
     Entry("Transport", -300 * Unit), Entry("Dining", -20005),
     Entry("Utilities", -150 * Unit), Entry("Fun", -1235),
     Entry("Groceries", -50 * Unit) >>

\* two months of income, the second at 45/55 of the first; net 100
SteadyFile ==
  << Txn(Some("2024-01-15"), 55 * Unit, Some("Salary"), Undefined, Undefined),
     Txn(Some("2024-02-15"), 45 * Unit, Some("Salary"), Undefined, Undefined) >>

\* a dated record of a dropped file
DatedEntry(date, category, amount) ==
  Txn(Some(date), amount, Some(""), Some(category), Undefined)

\* Rent goes from 1000 to exactly 1.3 times that, Dining from 1000 to exactly
\* 0.7 times that
BoundaryFile ==
  << DatedEntry("2024-01-15", "Rent", -1000 * Unit),
     DatedEntry("2024-01-16", "Dining", -1000 * Unit),
     DatedEntry("2024-02-15", "Rent", -1300 * Unit),
     DatedEntry("2024-02-16", "Dining", -700 * Unit) >>

\* one category, spent on to exactly the floor of the top-expense advisory
FloorFile == << Entry("Rent", -1000 * Unit) >>

\* one record more than a context samples, each of another amount
LongFile == [i \in 1..(SampleLimit + 1) |-> Entry("Bulk", -i)]

\* a savings rate of 20.04 percent
TightFile == << Entry("Pay", 10000 * Unit), Entry("Living", -7996 * Unit) >>

\* nothing earned and nothing spent
ZeroFile == << Entry("Memo", 0) >>

\* the files a user can drop on the page
Files ==
  {Scenario, ExpensesFile, SteadyFile, BoundaryFile, FloorFile, LongFile,
   TightFile, ZeroFile}

\* local-time offsets from UTC in minutes: New York and India
TimeZones == {-300, 330}

\* savings targets typed into the page, in hundredths
Targets == {-100 * Unit, 0, 100 * Unit, 150 * Unit, 3000 * Unit}

\* goal amounts, in hundredths, and numbers of months typed into the page
GoalAmounts == {-50 * Unit, 0, 200 * Unit, 1000 * Unit}

GoalMonths == {-1, 0, 3}

\* the longest forecast horizon asked for
MaxHorizon == 3

\* what the user types into the chat input
Prompts == {"", " ", "hi ", "why"}

\* res.data?.text of an answer of /api/ask
Answers == {"", "ok"}

\* `web-${Date.now()}-${random}`: two of the ids the page can generate
SessionIds == {"web-a", "web-b"}

\* e?.message of a failed POST
ErrorMessages == {"", "timeout of 60000ms exceeded"}

\* the most POSTs to /api/ask the page makes
MaxRequests == 2

----------------------------------------------------------------------------
(* The state machine.  The core is synchronous: a call runs to completion  *)
(* and its caller takes the result before the next call starts.            *)

NoCall == [fn |-> "none"]

\* the chat as the page mounts it
ChatIdle ==
  /\ prompt = ""
  /\ loading = FALSE
  /\ reuseSession = TRUE
  /\ sessionId \in SessionIds
  /\ messages = <<>>
  /\ error = Undefined
  /\ requests = <<>>

\* the proxy before a request has come in
ProxyIdle ==
  /\ pc = "idle"
  /\ candidates = <<>>
  /\ contacted = <<>>
  /\ lastResp = Undefined
  /\ response = Undefined

Init ==
  /\ tz \in TimeZones
  /\ transactions = <<>>
  /\ call = NoCall
  /\ ChatIdle
  /\ sessionId = "web-a"
  /\ ProxyIdle
  /\ explicitPath = Undefined
  /\ openapi = Undefined

\* page.tsx handleFile: the parsed file holds one more row; the page keeps
\* the mapped rows as its transaction list
HandleFile ==
  /\ call = NoCall
  /\ Len(transactions) < MaxTxns
  /\ \E t \in Rows : transactions' = Append(transactions, t)
  /\ UNCHANGED <<tz, call, chatVars, proxyVars>>

\* page.tsx handleDrop: a dropped file goes through handleFile, and its mapped
\* rows replace the transaction list
HandleDrop ==
  /\ call = NoCall
  /\ \E file \in Files : transactions' = file
  /\ UNCHANGED <<tz, call, chatVars, proxyVars>>

\* categorize on the description of a loaded record
Categorize ==
  /\ call = NoCall
  /\ \E i \in 1..Len(transactions) :
       call' = [fn |-> "categorize", description |-> transactions[i].description,
                ret |-> categorize(transactions[i].description)]
  /\ UNCHANGED <<tz, transactions, chatVars, proxyVars>>

AnalyzeTransactions ==
  /\ call = NoCall
  /\ call' = [fn |-> "analyzeTransactions", txns |-> transactions,
              ret |-> analyzeTransactions(transactions)]
  /\ UNCHANGED <<tz, transactions, chatVars, proxyVars>>

GroupByMonth ==
  /\ call = NoCall
  /\ call' = [fn |-> "groupByMonth", txns |-> transactions,
              ret |-> groupByMonth(transactions)]
  /\ UNCHANGED <<tz, transactions, chatVars, proxyVars>>

ComputeAlerts ==
  /\ call = NoCall
  /\ call' = [fn |-> "computeAlerts", txns |-> transactions,
              ret |-> computeAlerts(transactions)]
  /\ UNCHANGED <<tz, transactions, chatVars, proxyVars>>

\* as if the samples were cut out of the list in place (splice for slice)
BuildSummaryContext_truncating ==
  /\ call = NoCall
  /\ call' = [fn |-> "buildSummaryContext", txns |-> transactions,
              ret |-> buildSummaryContext(transactions)]
  /\ transactions' = slice0(transactions, SampleLimit)
  /\ UNCHANGED <<tz, chatVars, proxyVars>>

BuildSummaryContext ==
  /\ call = NoCall
  /\ call' = [fn |-> "buildSummaryContext", txns |-> transactions,
              ret |-> buildSummaryContext(transactions)]
  /\ UNCHANGED <<tz, transactions, chatVars, proxyVars>>

ForecastSavings ==
  /\ call = NoCall
  /\ \E months \in 0..MaxHorizon :
       call' = [fn |-> "forecastSavings", txns |-> transactions,
                months |-> months,
                ret |-> forecastSavings(transactions, months)]
  /\ UNCHANGED <<tz, transactions, chatVars, proxyVars>>

SuggestBudget ==
  /\ call = NoCall
  /\ \E targetSavings \in Targets :
       call' = [fn |-> "suggestBudget", txns |-> transactions,
                targetSavings |-> targetSavings,
                reductions |-> suggestBudgetReductions(transactions, targetSavings),
                ret |-> suggestBudget(transactions, targetSavings)]
  /\ UNCHANGED <<tz, transactions, chatVars, proxyVars>>

GenerateGoalPlan ==
  /\ call = NoCall
  /\ \E goalAmount \in GoalAmounts, months \in GoalMonths :
       call' = [fn |-> "generateGoalPlan", txns |-> transactions,
                goalAmount |-> goalAmount, months |-> months,
                ret |-> generateGoalPlan(transactions, goalAmount, months)]
  /\ UNCHANGED <<tz, transactions, chatVars, proxyVars>>

\* the caller takes the result
Return ==
  /\ call # NoCall
  /\ call' = NoCall
  /\ UNCHANGED <<tz, transactions, chatVars, proxyVars>>

Next ==
  \/ HandleFile
  \/ HandleDrop
  \/ Categorize
  \/ AnalyzeTransactions
  \/ GroupByMonth
  \/ ComputeAlerts
  \/ ForecastSavings
  \/ BuildSummaryContext
  \/ SuggestBudget
  \/ GenerateGoalPlan
  \/ Return

Spec == Init /\ [][Next]_vars

----------------------------------------------------------------------------
(* The chat of the page: the input row, sendMessage and the answers of     *)
(* /api/ask.  A POST is in flight from the step that sends it to the step  *)
(* that takes its answer or its failure; the steps of other handlers run   *)
(* in between.  A request keeps the prompt and the transcript of the       *)
(* render whose handler sent it.                                           *)

\* String.prototype.trim on strings whose only white space is the blank
RECURSIVE trimStart(_)
trimStart(s) ==
  IF Len(s) > 0 /\ CharAt(s, 1) = " " THEN trimStart(SubSeq(s, 2, Len(s))) ELSE s

RECURSIVE trimEnd(_)
trimEnd(s) ==
  IF Len(s) > 0 /\ CharAt(s, Len(s)) = " "
    THEN trimEnd(SubSeq(s, 1, Len(s) - 1)) ELSE s

trim(s) == trimEnd(trimStart(s))

\* transactions.slice(0, 200)
PostLimit == 200

\* the body of the POST to /api/ask, and how the request stands
AskRequest ==
  [prompt |-> prompt,
   transactions |-> slice0(transactions, PostLimit),
   context |-> buildSummaryContext(transactions),
   messages |-> messages,
   state |-> "inflight",
   answer |-> ""]

\* sendMessage up to the await of axios.post
sendMessage ==
  IF trim(prompt) = ""
    THEN UNCHANGED chatVars
    ELSE /\ loading' = TRUE
         /\ error' = Undefined
         /\ IF reuseSession
              THEN sessionId' = sessionId
              ELSE sessionId' \in SessionIds
         /\ requests' = Append(requests, AskRequest)
         /\ UNCHANGED <<prompt, reuseSession, messages>>

\* onChange of the chat input
TypePrompt ==
  /\ \E text \in Prompts : prompt' = text
  /\ UNCHANGED <<loading, reuseSession, sessionId, messages, error, requests>>
  /\ UNCHANGED <<coreVars, proxyVars>>

\* onChange of the "reuse session" checkbox
ToggleReuseSession ==
  /\ reuseSession' = ~reuseSession
  /\ UNCHANGED <<prompt, loading, sessionId, messages, error, requests>>
  /\ UNCHANGED <<coreVars, proxyVars>>

\* the Send button: <button onClick={sendMessage} disabled={loading}>
ClickSend ==
  /\ ~loading
  /\ trim(prompt) # "" => Len(requests) < MaxRequests
  /\ sendMessage
  /\ UNCHANGED <<coreVars, proxyVars>>

\* onKeyDown of the chat input, Enter without Shift
PressEnter ==
  /\ trim(prompt) # "" => Len(requests) < MaxRequests
  /\ sendMessage
  /\ UNCHANGED <<coreVars, proxyVars>>

\* sendMessage from the answer of a POST on: the pair goes on the
\* transcript, the input is emptied, and finally loading is reset
AskAnswered ==
  /\ \E i \in 1..Len(requests), answer \in Answers :
       /\ requests[i].state = "inflight"
       /\ messages' = messages \o
            << [role |-> "user", text |-> trim(requests[i].prompt)],
               [role |-> "assistant", text |-> answer] >>
       /\ requests' = [requests EXCEPT ![i].state = "answered",
                                       ![i].answer = answer]
  /\ prompt' = ""
  /\ loading' = FALSE
  /\ UNCHANGED <<reuseSession, sessionId, error>>
  /\ UNCHANGED <<coreVars, proxyVars>>

\* sendMessage from the failure of a POST on: catch, then finally
AskFailed ==
  /\ \E i \in 1..Len(requests), message \in ErrorMessages :
       /\ requests[i].state = "inflight"
       /\ error' = Some(IF message = "" THEN "Request failed" ELSE message)
       /\ requests' = [requests EXCEPT ![i].state = "failed"]
  /\ loading' = FALSE
  /\ UNCHANGED <<prompt, reuseSession, sessionId, messages>>
  /\ UNCHANGED <<coreVars, proxyVars>>

\* the page with a file loaded, or with none
ChatInit ==
  /\ tz \in TimeZones
  /\ transactions \in {<<>>, Scenario}
  /\ call = NoCall
  /\ ChatIdle
  /\ ProxyIdle
  /\ explicitPath = Undefined
  /\ openapi = Undefined

ChatNext ==
  \/ TypePrompt
  \/ ToggleReuseSession
  \/ ClickSend
  \/ PressEnter
  \/ AskAnswered
  \/ AskFailed

ChatSpec == ChatInit /\ [][ChatNext]_vars

----------------------------------------------------------------------------
(* The agent proxy: POST forwards a request to the first upstream URL that *)
(* knows it.  ADK_UPSTREAM_URL and ADK_AGENT_NAME are left unset, so base  *)
(* and agent have their defaults.  Every await of a fetch is a step; the   *)
(* payload, the same for every candidate, is not part of the state.        *)

base == "http://127.0.0.1:8001"

agent == "finwise_agent"

startsWith(s, prefix) ==
  Len(prefix) <= Len(s) /\ SubSeq(s, 1, Len(prefix)) = prefix

endsWith(s, suffix) ==
  Len(suffix) <= Len(s) /\ SubSeq(s, Len(s) - Len(suffix) + 1, Len(s)) = suffix

\* the test of discoverRunPaths on a path p whose methods hold post or not
isAgentRunPath(p, post, agentName) ==
  LET lower == toLowerCase(p)
      looksLikeAgent == includes(lower, "/agent/") \/ includes(lower, "/agents/")
      mentionsAgent == includes(lower, toLowerCase(agentName))
      isRun == endsWith(lower, "/run") \/ includes(lower, "/run")
      isExecute == endsWith(lower, "/execute") \/ includes(lower, "/execute")
  IN post /\ looksLikeAgent /\ mentionsAgent /\ (isRun \/ isExecute)

\* paths.sort((a, b) => b.length - a.length), stable
RECURSIVE insertByLength(_, _)
insertByLength(sorted, x) ==
  IF Len(sorted) = 0 THEN <<x>>
  ELSE IF Len(x) - Len(sorted[Len(sorted)]) <= 0 THEN Append(sorted, x)
  ELSE Append(insertByLength(SubSeq(sorted, 1, Len(sorted) - 1), x),
              sorted[Len(sorted)])

RECURSIVE sortByLength(_)
sortByLength(s) ==
  IF Len(s) = 0 THEN <<>>
  ELSE insertByLength(sortByLength(SubSeq(s, 1, Len(s) - 1)), s[Len(s)])

\* discoverRunPaths on the document the upstream serves: none when the
\* fetch fails, the answer is not ok or the document has no paths
discoverRunPaths(doc, agentName) ==
  IF doc = Undefined THEN <<>>
  ELSE LET entries == doc[1]
           kept == SelectSeq(entries, LAMBDA e : isAgentRunPath(e.path, e.post, agentName))
       IN sortByLength([i \in 1..Len(kept) |-> kept[i].path])

\* if (explicitPath) candidates.push(`${base}${path}`), the path given a
\* leading "/" when it has none
explicitCandidates(explicit) ==
  IF Truthy(explicit)
    THEN << base \o (IF startsWith(explicit[1], "/")
                       THEN explicit[1] ELSE "/" \o explicit[1]) >>
    ELSE <<>>

\* the execute paths ahead of the run paths
fallbacks_executeFirst(b, a) ==
  << b \o "/agent/" \o a \o "/execute",
     b \o "/agents/" \o a \o "/execute",
     b \o "/agent/" \o a \o "/run",
     b \o "/agents/" \o a \o "/run" >>

\* the four known fallbacks
fallbacks(b, a) ==
  << b \o "/agent/" \o a \o "/run",
     b \o "/agents/" \o a \o "/run",
     b \o "/agent/" \o a \o "/execute",
     b \o "/agents/" \o a \o "/execute" >>

\* resp.status !== 404 && resp.status !== 405
isAnswer(status) == status # 404 /\ status # 405

\* the statuses an upstream answers with
Statuses == {200, 404, 405, 500}

\* the outcome of a fetch that throws: no status
NoStatus == 0

\* ADK_RUN_PATH: unset, empty, with and without its leading "/"
ExplicitPaths == {Undefined, Some(""), Some("/custom/run"), Some("custom/run")}

OpenApiPath(path, post) == [path |-> path, post |-> post]

\* what /openapi.json holds: nothing usable; one agent path among others;
\* several agent paths, one of them a fallback again, one without POST
OpenApiDocs ==
  { Undefined,
    Some(<< OpenApiPath("/apps/finwise_agent/run_eval", TRUE),
            OpenApiPath("/Agents/Finwise_Agent/Run", TRUE) >>),
    Some(<< OpenApiPath("/agent/finwise_agent/run", TRUE),
            OpenApiPath("/agents/finwise_agent/execute/stream", TRUE),
            OpenApiPath("/agents/finwise_agent/run_sse", FALSE),
            OpenApiPath("/agents/other/run", TRUE) >>) }

Reply(status, upstream) == [status |-> status, upstream |-> upstream]

\* POST up to the await of discoverRunPaths: the body is read, which
\* throws when it is no JSON, and the explicit path and the fallbacks
\* are collected
ProxyPost ==
  /\ pc = "idle"
  /\ \E bodyIsJson \in BOOLEAN :
       IF bodyIsJson
         THEN /\ candidates' = explicitCandidates(explicitPath) \o fallbacks(base, agent)
              /\ pc' = "discover"
              /\ response' = Undefined
         ELSE /\ candidates' = <<>>
              /\ pc' = "done"
              /\ response' = Some(Reply(500, Undefined))
  /\ contacted' = <<>>
  /\ lastResp' = Undefined
  /\ UNCHANGED <<explicitPath, openapi>>
  /\ UNCHANGED <<coreVars, chatVars>>

\* discoverRunPaths returns; the discovered paths go to the end
Discover ==
  /\ pc = "discover"
  /\ LET discovered == discoverRunPaths(openapi, agent)
     IN candidates' = candidates \o [i \in 1..Len(discovered) |-> base \o discovered[i]]
  /\ pc' = "fetch"
  /\ UNCHANGED <<explicitPath, openapi, contacted, lastResp, response>>
  /\ UNCHANGED <<coreVars, chatVars>>

\* one turn of the loop over the candidates: the fetch of the next URL
\* throws, which the catch answers with 500, or it is answered; after a 404
\* or 405 of the last candidate, POST returns that status
Fetch ==
  /\ pc = "fetch"
  /\ LET url == candidates[Len(contacted) + 1]
     IN \E outcome \in Statuses \cup {NoStatus} :
          /\ contacted' = Append(contacted, [url |-> url, outcome |-> outcome])
          /\ IF outcome = NoStatus
               THEN /\ response' = Some(Reply(500, Undefined))
                    /\ pc' = "done"
                    /\ UNCHANGED lastResp
             ELSE IF isAnswer(outcome)
               THEN /\ response' = Some(Reply(outcome, Some(url)))
                    /\ pc' = "done"
                    /\ UNCHANGED lastResp
             ELSE /\ lastResp' = Some(outcome)
                  /\ IF Len(contacted) + 1 = Len(candidates)
                       THEN /\ response' = Some(Reply(outcome, Undefined))
                            /\ pc' = "done"
                       ELSE /\ pc' = "fetch"
                            /\ UNCHANGED response
  /\ UNCHANGED <<explicitPath, candidates, openapi>>
  /\ UNCHANGED <<coreVars, chatVars>>

\* the client has the response, and the locals of the call are gone
ProxyReturn ==
  /\ pc = "done"
  /\ pc' = "idle"
  /\ candidates' = <<>>
  /\ contacted' = <<>>
  /\ lastResp' = Undefined
  /\ response' = Undefined
  /\ UNCHANGED <<explicitPath, openapi>>
  /\ UNCHANGED <<coreVars, chatVars>>

ProxyInit ==
  /\ tz \in TimeZones
  /\ transactions = <<>>
  /\ call = NoCall
  /\ ChatIdle
  /\ sessionId = "web-a"
  /\ ProxyIdle
  /\ explicitPath \in ExplicitPaths
  /\ openapi \in OpenApiDocs

ProxyNext ==
  \/ ProxyPost
  \/ Discover
  \/ Fetch
  \/ ProxyReturn

ProxySpec == ProxyInit /\ [][ProxyNext]_vars

----------------------------------------------------------------------------
(* Properties *)

IsCall(fn) == call.fn = fn

\* the sum of the amount fields, head first
RECURSIVE PlainSum(_)
PlainSum(txns) ==
  IF txns = <<>> THEN 0
  ELSE IF Len(txns) = 1 THEN txns[1].amount
  ELSE LET mid == Len(txns) \div 2
       IN PlainSum(SubSeq(txns, 1, mid)) + PlainSum(SubSeq(txns, mid + 1, Len(txns)))

\* the value of an object under key k, 0 for a missing key
ValueAt(obj, k) ==
  IF \E i \in 1..Len(obj) : obj[i].k = k
    THEN obj[CHOOSE i \in 1..Len(obj) : obj[i].k = k].v
    ELSE 0

\* C1: analyzeTransactions returns netTotal equal to the plain sum of the
\* amount fields of the list, whatever the type, date, category or
\* description of the transactions.
C1_NetTotalIsPlainSum ==
  IsCall("analyzeTransactions") => call.ret.netTotal = PlainSum(call.txns)

C1_Witness ==
  /\ IsCall("analyzeTransactions")
  /\ Len(call.txns) = 2
  /\ \E i \in 1..2 : call.txns[i] = SalaryCorrection
  /\ \E i \in 1..2 : call.txns[i] = NotADate
  /\ call.ret.netTotal = -30 * Unit

\* C2: the values of byCategory add up to netTotal, and every transaction is
\* attributed to exactly one label: the labels of the mapping are distinct
\* and the sum under a label is the sum of the transactions carrying it.
C2_CategorySumsAddUpToNet ==
  IsCall("analyzeTransactions") =>
    LET byCat == call.ret.byCategory IN
    /\ SumSeq([i \in 1..Len(byCat) |-> byCat[i].v]) = call.ret.netTotal
    /\ \A i, j \in 1..Len(byCat) : i # j => byCat[i].k # byCat[j].k
    /\ \A i \in 1..Len(call.txns) :
         \E j \in 1..Len(byCat) :
           /\ byCat[j].k = categoryOf(call.txns[i])
           /\ byCat[j].v =
                PlainSum(SelectSeq(call.txns,
                           LAMBDA t : categoryOf(t) = byCat[j].k))

C2_Witness ==
  /\ IsCall("analyzeTransactions")
  /\ Len(call.ret.byCategory) >= 2
  /\ Len(call.ret.byCategory) < Len(call.txns)
  /\ \E i \in 1..Len(call.txns) : Truthy(call.txns[i].category)

\* C3: every component classifies a transaction as income or expense by the
\* same rule: a transaction analyzeTransactions adds to incomeTotal is not
\* also added to expenseTotal, and groupByMonth puts it on the same side of
\* its month bucket.
C3_SameClassification ==
  \A i \in 1..Len(transactions) :
    LET one == <<transactions[i]>>
        summary == analyzeTransactions(one)
        monthly == groupByMonth(one)
    IN /\ ~(summary.incomeTotal # 0 /\ summary.expenseTotal # 0)
       /\ Len(monthly) = 1 =>
            /\ monthly[1].income = summary.incomeTotal
            /\ monthly[1].expense = summary.expenseTotal

\* C4 as stated: on the three-record scenario analyzeTransactions returns
\* incomeTotal 2000, expenseTotal 1250, netTotal 750 and a category map with
\* Transport = -50, Rent = -1200 and Income = 2000.
C4_ScenarioAsStated ==
  (IsCall("analyzeTransactions") /\ call.txns = Scenario) =>
    /\ call.ret.incomeTotal = 2000 * Unit
    /\ call.ret.expenseTotal = 1250 * Unit
    /\ call.ret.netTotal = 750 * Unit
    /\ HasKey(call.ret.byCategory, "Transport")
    /\ HasKey(call.ret.byCategory, "Rent")
    /\ HasKey(call.ret.byCategory, "Income")
    /\ ValueAt(call.ret.byCategory, "Transport") = -50 * Unit
    /\ ValueAt(call.ret.byCategory, "Rent") = -1200 * Unit
    /\ ValueAt(call.ret.byCategory, "Income") = 2000 * Unit

\* C4 amended: on the three-record scenario analyzeTransactions returns
\* incomeTotal 2000, expenseTotal 1250, netTotal 750 and the category map
\* Transport = -50, Other = 2000, Income = -1200 ("Rent payment" contains
\* the Income keyword "pay"; a record without description is "Other").
C4_ScenarioTotals ==
  (IsCall("analyzeTransactions") /\ call.txns = Scenario) =>
    /\ call.ret.totalTxns = 3
    /\ call.ret.incomeTotal = 2000 * Unit
    /\ call.ret.expenseTotal = 1250 * Unit
    /\ call.ret.netTotal = 750 * Unit
    /\ call.ret.byCategory = << [k |-> "Transport", v |-> -50 * Unit],
                                [k |-> "Other", v |-> 2000 * Unit],
                                [k |-> "Income", v |-> -1200 * Unit] >>

C4_Witness == IsCall("analyzeTransactions") /\ call.txns = Scenario

\* C5: on the three-record scenario groupByMonth returns exactly the buckets
\* 2024-01 with net 1950 and 2024-02 with net -1200, in that order, and
\* computeAlerts returns a list that includes the net-savings-dropped alert.
C5_ScenarioMonths ==
  /\ (IsCall("groupByMonth") /\ call.txns = Scenario) =>
       /\ Len(call.ret) = 2
       /\ call.ret[1].month = "2024-01" /\ call.ret[1].net = 1950 * Unit
       /\ call.ret[2].month = "2024-02" /\ call.ret[2].net = -1200 * Unit
  /\ (IsCall("computeAlerts") /\ call.txns = Scenario) =>
       \E i \in 1..Len(call.ret) : call.ret[i].kind = "net_drop"

\* C6: analyzeTransactions on an empty (or absent) list returns totalTxns,
\* netTotal, avgAmount, incomeTotal and expenseTotal equal to 0 and an empty
\* category mapping, and divides by nothing that is zero.
C6_EmptyListAllZero ==
  (IsCall("analyzeTransactions") /\ Len(call.txns) = 0) =>
    /\ call.ret.totalTxns = 0
    /\ call.ret.netTotal = 0
    /\ call.ret.avgAmount.num = 0
    /\ call.ret.avgAmount.den # 0
    /\ call.ret.incomeTotal = 0
    /\ call.ret.expenseTotal = 0
    /\ Len(call.ret.byCategory) = 0

C6_Witness == IsCall("analyzeTransactions") /\ call.txns = <<>>

\* the fixed rule order and the keyword set of every rule
RuleOrder ==
  <<"Transport", "Dining", "Income", "Rent", "Shopping", "Utilities",
    "Healthcare", "Entertainment", "Education", "Investment">>

RuleKeywords ==
  <<TransportKw, DiningKw, IncomeKw, RentKw, ShoppingKw, UtilitiesKw,
    HealthcareKw, EntertainmentKw, EducationKw, InvestmentKw>>

\* the rules with a keyword that occurs in the description, letter case ignored
MatchingRules(description) ==
  {r \in 1..Len(RuleOrder) :
     \E i \in 1..Len(RuleKeywords[r]) :
       includes(toLowerCase(OrEmpty(description)), RuleKeywords[r][i])}

\* C7: when a description matches the keyword sets of two or more rules,
\* categorize returns the label of the rule that comes first in the fixed
\* rule order, keywords matched as case-insensitive substrings.
C7_EarlierRuleWins ==
  IsCall("categorize") =>
    LET matching == MatchingRules(call.description) IN
    Cardinality(matching) >= 2 =>
      \E r \in matching :
        /\ \A q \in matching : r <= q
        /\ call.ret = RuleOrder[r]

C7_Witness ==
  /\ IsCall("categorize")
  /\ call.description = Some("UBER Pizza")
  /\ MatchingRules(call.description) = {1, 2}
  /\ call.ret = "Transport"

\* C8: categorize is total and deterministic: every description, absent and
\* empty included, gets exactly one label of the fixed label set; the label
\* is "Other" exactly when no rule keyword occurs in the description; and
\* it is the same on every call with that description, whatever was loaded
\* or called before: it is the one label the description alone determines.
C8_TotalAndDeterministic ==
  IsCall("categorize") =>
    LET matching == MatchingRules(call.description) IN
    /\ call.ret \in {RuleOrder[r] : r \in 1..Len(RuleOrder)} \cup {"Other"}
    /\ (call.ret = "Other") <=> (matching = {})
    /\ \A r \in matching :
         (\A q \in matching : r <= q) => call.ret = RuleOrder[r]

C8_Witness ==
  /\ IsCall("categorize")
  /\ call.description = Undefined
  /\ call.ret = "Other"

\* the year and month a month key spells, as one number
KeyNumber(key) == 12 * ParseNat(SubSeq(key, 1, 4)) + ParseNat(SubSeq(key, 6, 7))

\* C9: the sequence returned by groupByMonth is strictly ascending by month
\* key: sorted, and no key twice.
C9_MonthsStrictlyAscending ==
  IsCall("groupByMonth") =>
    \A i, j \in 1..Len(call.ret) :
      i < j => /\ call.ret[i].month # call.ret[j].month
               /\ KeyNumber(call.ret[i].month) < KeyNumber(call.ret[j].month)

\* a call whose first record falls in the last month of the result
C9_Witness ==
  /\ IsCall("groupByMonth")
  /\ Len(call.ret) >= 2
  /\ ~dateSkipped(call.txns[1])
  /\ monthKey(NewDate(call.txns[1].date[1])) = call.ret[Len(call.ret)].month

\* C10: a transaction whose date is missing or does not parse contributes to
\* no month bucket: adding it to a list leaves the output of groupByMonth
\* unchanged, while analyzeTransactions counts it in totalTxns, netTotal,
\* incomeTotal or expenseTotal, and byCategory.
C10_UndatedRowsOnlyInTotals ==
  [][ (/\ Len(transactions') = Len(transactions) + 1
       /\ SubSeq(transactions', 1, Len(transactions)) = transactions
       /\ LET t == transactions'[Len(transactions')]
          IN ~Truthy(t.date) \/ ~NewDate(t.date[1]).valid)
      =>
      LET t == transactions'[Len(transactions')]
          before == analyzeTransactions(transactions)
          after == analyzeTransactions(transactions')
      IN /\ groupByMonth(transactions') = groupByMonth(transactions)
         /\ after.totalTxns = before.totalTxns + 1
         /\ after.netTotal = before.netTotal + t.amount
         /\ t.amount > 0 => after.incomeTotal = before.incomeTotal + t.amount
         /\ t.amount < 0 => after.expenseTotal = before.expenseTotal - t.amount
         /\ ValueAt(after.byCategory, categoryOf(t))
              = ValueAt(before.byCategory, categoryOf(t)) + t.amount ]_vars

\* an undated record at the end of a list that has month buckets
C10_Witness ==
  /\ IsCall("groupByMonth")
  /\ Len(call.ret) >= 1
  /\ Len(call.txns) >= 2
  /\ LET t == call.txns[Len(call.txns)]
     IN ~Truthy(t.date) \/ ~NewDate(t.date[1]).valid

\* C11: forecastSavings takes the net total of all transactions, not divided
\* by the number of months present, as avgMonthlyNet, and forecast point i
\* (counted from 1) is avgMonthlyNet times i; a list with net 100 and
\* months = 3 yields the points 100, 200, 300.
C11_ForecastIsNetTimesOffset ==
  IsCall("forecastSavings") =>
    LET points == call.ret.forecast IN
    /\ call.ret.avgMonthlyNet = PlainSum(call.txns)
    /\ \A i \in 1..Len(points) :
         points[i].estimatedSavings = call.ret.avgMonthlyNet * i
    /\ (PlainSum(call.txns) = 100 * Unit /\ call.months = 3) =>
         [i \in 1..3 |-> points[i].estimatedSavings]
           = <<100 * Unit, 200 * Unit, 300 * Unit>>

\* a list with net 100 that spans two months, forecast over three
C11_Witness ==
  /\ IsCall("forecastSavings")
  /\ call.months = 3
  /\ PlainSum(call.txns) = 100 * Unit
  /\ Len(groupByMonth(call.txns)) = 2
  /\ call.ret.forecast[3].estimatedSavings = 300 * Unit

NeededToSave(txns, targetSavings) ==
  LET summary == analyzeTransactions(txns)
  IN Max(0, targetSavings - Max(0, summary.incomeTotal - summary.expenseTotal))

\* C13 as stated: suggestBudget returns neededToSave >= 0, equal to
\* max(0, targetSavings - max(0, incomeTotal - expenseTotal)), and every
\* returned suggestion has suggestedCut no larger than 10% of its
\* currentSpend.
C13_CutAtMostTenPercent ==
  IsCall("suggestBudget") =>
    /\ call.ret.neededToSave >= 0
    /\ call.ret.neededToSave = NeededToSave(call.txns, call.targetSavings)
    /\ \A k \in 1..Len(call.ret.suggestions) :
         LET s == call.ret.suggestions[k]
         IN s.suggestedCut * Percent <= s.currentSpend * CutPercent

\* C13 amended: suggestBudget returns neededToSave >= 0, equal to
\* max(0, targetSavings - max(0, incomeTotal - expenseTotal)), and every
\* returned suggestion has suggestedCut no larger than 10% of its
\* currentSpend rounded to two decimals, halves upwards: it exceeds the
\* exact tenth by at most half a hundredth.
C13_CutAtMostRoundedTenPercent ==
  IsCall("suggestBudget") =>
    /\ call.ret.neededToSave >= 0
    /\ call.ret.neededToSave = NeededToSave(call.txns, call.targetSavings)
    /\ \A k \in 1..Len(call.ret.suggestions) :
         LET s == call.ret.suggestions[k]
         IN 2 * (s.suggestedCut * Percent - s.currentSpend * CutPercent)
              <= Percent

\* a suggestion whose returned cut is above the tenth of its spend
C13_Witness ==
  /\ IsCall("suggestBudget")
  /\ call.ret.neededToSave > 0
  /\ \E k \in 1..Len(call.ret.suggestions) :
       LET s == call.ret.suggestions[k]
       IN /\ s.currentSpend = 20005
          /\ s.suggestedCut = 2001

\* C14: suggestBudget called with targetSavings = 0 returns neededToSave = 0
\* and no suggestion, for every transaction list, whatever the spending.
C14_ZeroTargetNeedsNothing ==
  (IsCall("suggestBudget") /\ call.targetSavings = 0) =>
    /\ call.ret.neededToSave = 0
    /\ call.ret.suggestions = <<>>

\* a zero target on a list that spends more than it earns
C14_Witness ==
  /\ IsCall("suggestBudget")
  /\ call.targetSavings = 0
  /\ LET summary == analyzeTransactions(call.txns)
     IN summary.expenseTotal > summary.incomeTotal
  /\ call.ret.suggestions = <<>>

\* the categories of a summary whose sum is negative
NegativeCategories(summary) ==
  {summary.byCategory[j].k : j \in {i \in 1..Len(summary.byCategory) :
                                     summary.byCategory[i].v < 0}}

\* what they name, and in which order: each suggestion names another
\* category with a negative sum and gives its absolute sum as currentSpend,
\* larger spends come first, and a category left out spends no more than
\* any category named
MostNegativeFirst(summary, names, spends) ==
  /\ \A k \in 1..Len(names) :
       /\ names[k] \in NegativeCategories(summary)
       /\ spends[k] = -ValueAt(summary.byCategory, names[k])
  /\ \A k, l \in 1..Len(names) :
       k < l => names[k] # names[l] /\ spends[k] >= spends[l]
  /\ \A c \in NegativeCategories(summary) :
       (\A k \in 1..Len(names) : names[k] # c) =>
         \A k \in 1..Len(names) : -ValueAt(summary.byCategory, c) <= spends[k]

\* the exact cuts of the greedy allocation over the spends, in 1 / Percent
\* of a hundredth: a tenth of the spend or the need that remains, whichever
\* is smaller, until nothing is needed
RECURSIVE GreedyCuts(_, _)
GreedyCuts(spends, need) ==
  IF spends = <<>> \/ need <= 0 THEN <<>>
  ELSE LET cut == Min(Head(spends) * CutPercent, need)
       IN <<cut>> \o GreedyCuts(Tail(spends), need - cut)

\* a count of 1 / Percent of a hundredth, rounded to hundredths
Rounded(x) == (2 * x + Percent) \div (2 * Percent)

\* C15 as stated: suggestBudget considers exactly the categories with a
\* negative sum, most negative first, and allocates greedily: the cut of the
\* k-th suggestion is min(10% of its category's absolute spend, the need
\* that remains after the first k-1 cuts), its newEstimatedSpend is
\* currentSpend minus that cut, and no suggestion is appended once the need
\* that remains has reached zero.
C15_GreedyAllocation ==
  IsCall("suggestBudget") =>
    LET summary == analyzeTransactions(call.txns)
        sugg == call.ret.suggestions
        need == NeededToSave(call.txns, call.targetSavings) * Percent
        Remaining(k) ==
          need - SumSeq([j \in 1..(k - 1) |-> sugg[j].suggestedCut * Percent])
    IN /\ MostNegativeFirst(summary,
                            [k \in 1..Len(sugg) |-> sugg[k].category],
                            [k \in 1..Len(sugg) |-> sugg[k].currentSpend])
       /\ \A k \in 1..Len(sugg) :
            /\ Remaining(k) > 0
            /\ sugg[k].suggestedCut * Percent
                 = Min(sugg[k].currentSpend * CutPercent, Remaining(k))
            /\ sugg[k].newEstimatedSpend
                 = sugg[k].currentSpend - sugg[k].suggestedCut
       /\ Len(sugg) < Cardinality(NegativeCategories(summary)) =>
            Remaining(Len(sugg) + 1) <= 0

\* C15 amended: suggestBudget considers exactly the categories with a
\* negative sum, most negative first, and allocates greedily in exact
\* arithmetic: the cut of the k-th suggestion is min(10% of its category's
\* absolute spend, the need that remains after the first k-1 exact cuts),
\* and no suggestion is appended once that need has reached zero; the
\* returned suggestedCut is this cut rounded to two decimals and the
\* returned newEstimatedSpend is currentSpend minus the exact cut, rounded
\* to two decimals on its own.
C15_GreedyAllocationRounded ==
  IsCall("suggestBudget") =>
    LET summary == analyzeTransactions(call.txns)
        sugg == call.ret.suggestions
        need == NeededToSave(call.txns, call.targetSavings) * Percent
        spends == [k \in 1..Len(sugg) |-> sugg[k].currentSpend]
        cuts == GreedyCuts(spends, need)
    IN /\ MostNegativeFirst(summary,
                            [k \in 1..Len(sugg) |-> sugg[k].category], spends)
       /\ Len(cuts) = Len(sugg)
       /\ \A k \in 1..Len(sugg) :
            /\ sugg[k].suggestedCut = Rounded(cuts[k])
            /\ sugg[k].newEstimatedSpend
                 = Rounded(sugg[k].currentSpend * Percent - cuts[k])
       /\ Len(sugg) < Cardinality(NegativeCategories(summary)) =>
            need - SumSeq(cuts) <= 0

\* the need runs out at the second of six categories: a full tenth of the
\* first, the rest of the need from the second, nothing from the others
C15_Witness ==
  /\ IsCall("suggestBudget")
  /\ Cardinality(NegativeCategories(analyzeTransactions(call.txns))) = 6
  /\ Len(call.ret.suggestions) = 2
  /\ call.ret.suggestions[1].suggestedCut * CutPercent
       = call.ret.suggestions[1].currentSpend
  /\ call.ret.suggestions[2].suggestedCut * CutPercent
       < call.ret.suggestions[2].currentSpend
  /\ call.ret.suggestions[1].suggestedCut + call.ret.suggestions[2].suggestedCut
       = call.ret.neededToSave

\* C16: generateGoalPlan called with goalAmount <= 0 or months <= 0 returns
\* goalAmount, months, monthlyTarget and weeklyTarget all 0 and no tip, for
\* every transaction list; it returns a result on every call.
C16_NonPositiveGoalAllZero ==
  (IsCall("generateGoalPlan") /\ (call.goalAmount <= 0 \/ call.months <= 0)) =>
    call.ret = [goalAmount |-> 0, months |-> 0, monthlyTarget |-> 0,
                weeklyTarget |-> 0, tips |-> <<>>]

\* a goal over zero months on a list with spending, and a negative goal
C16_Witness ==
  /\ IsCall("generateGoalPlan")
  /\ NegativeCategories(analyzeTransactions(call.txns)) # {}
  /\ \/ call.goalAmount > 0 /\ call.months = 0
     \/ call.goalAmount < 0 /\ call.months > 0
  /\ call.ret.tips = <<>>

\* a count of 1 / den of a hundredth, rounded to hundredths
RoundedBy(x, den) == (2 * x + den) \div (2 * den)

\* C17 as stated: generateGoalPlan with positive goalAmount and months
\* returns at most 5 tips, taken from the 5 categories with the most
\* negative sums, most negative first; the cut of each tip is min(10% of its
\* category's absolute spend, the need that remains), starting from a need
\* of monthlyTarget = goalAmount / months, so the cuts total at most
\* monthlyTarget and no cut exceeds 10% of its category's spend.
C17_TopFiveGreedy ==
  (IsCall("generateGoalPlan") /\ call.goalAmount > 0 /\ call.months > 0) =>
    LET summary == analyzeTransactions(call.txns)
        tips == call.ret.tips
        scale == Percent * call.months
        need == call.goalAmount * Percent
        Remaining(k) ==
          need - SumSeq([j \in 1..(k - 1) |->
                           tips[j].suggestedMonthlyCut * scale])
    IN /\ Len(tips) <= 5
       /\ MostNegativeFirst(summary,
                            [k \in 1..Len(tips) |-> tips[k].category],
                            [k \in 1..Len(tips) |-> tips[k].currentMonthly])
       /\ \A k \in 1..Len(tips) :
            /\ tips[k].suggestedMonthlyCut * scale
                 = Min(tips[k].currentMonthly * CutPercent * call.months,
                       Remaining(k))
            /\ tips[k].suggestedMonthlyCut * Percent
                 <= tips[k].currentMonthly * CutPercent
       /\ Remaining(Len(tips) + 1) >= 0

\* C17 amended: generateGoalPlan with positive goalAmount and months returns
\* at most 5 tips, taken from the 5 categories with the most negative sums,
\* most negative first; in exact arithmetic the cut of each tip is min(10%
\* of its category's absolute spend, the need that remains), starting from
\* a need of goalAmount / months, so the exact cuts total at most
\* goalAmount / months and none exceeds 10% of its category's spend; the
\* returned suggestedMonthlyCut is the exact cut rounded to two decimals.
C17_TopFiveGreedyRounded ==
  (IsCall("generateGoalPlan") /\ call.goalAmount > 0 /\ call.months > 0) =>
    LET summary == analyzeTransactions(call.txns)
        tips == call.ret.tips
        scale == Percent * call.months
        need == call.goalAmount * Percent
        spends == [k \in 1..Len(tips) |-> tips[k].currentMonthly]
        cuts == GreedyCuts([k \in 1..Len(tips) |-> spends[k] * call.months],
                           need)
    IN /\ Len(tips) <= 5
       /\ MostNegativeFirst(summary,
                            [k \in 1..Len(tips) |-> tips[k].category], spends)
       /\ Len(cuts) = Len(tips)
       /\ \A k \in 1..Len(tips) :
            /\ tips[k].suggestedMonthlyCut = RoundedBy(cuts[k], scale)
            /\ cuts[k] <= spends[k] * CutPercent * call.months
       /\ SumSeq(cuts) <= need
       /\ (Len(tips) < 5 /\
           Len(tips) < Cardinality(NegativeCategories(summary))) =>
            need - SumSeq(cuts) <= 0

\* six categories were spent on and the need outlasts the five largest
C17_Witness ==
  /\ IsCall("generateGoalPlan")
  /\ call.goalAmount > 0 /\ call.months > 0
  /\ Cardinality(NegativeCategories(analyzeTransactions(call.txns))) = 6
  /\ Len(call.ret.tips) = 5
  /\ \A k \in 1..5 :
       2 * Abs(call.ret.tips[k].suggestedMonthlyCut * Percent
                 - call.ret.tips[k].currentMonthly * CutPercent) <= Percent

\* how often an alert of one of the kinds is in the list
CountKinds(alerts, kinds) ==
  Cardinality({i \in 1..Len(alerts) : alerts[i].kind \in kinds})

\* the alerts of the four rules
RuleKindNames ==
  {"overspending", "excellent", "good", "aim_higher", "net_drop",
   "positive_trend", "spike", "reduced", "top_expense"}

\* C18: computeAlerts returns a non-empty list for every input: the "no
\* data" message alone when the transaction list is empty, and for a
\* non-empty list the "all clear" message appears exactly when none of the
\* rules fired, and then it is the only element.
C18_AlertsNeverEmpty ==
  IsCall("computeAlerts") =>
    /\ Len(call.ret) > 0
    /\ call.txns = <<>> => call.ret = <<Alert("no_data", "")>>
    /\ call.txns # <<>> =>
         LET summary == analyzeTransactions(call.txns)
             fired == budgetAlerts(summary)
                        \o trendAlerts(groupByMonth(call.txns))
                        \o categoryAlerts(call.txns)
                        \o topExpenseAlerts(summary)
         IN /\ CountKinds(call.ret, {"no_data"}) = 0
            /\ (CountKinds(call.ret, {"all_clear"}) > 0) <=> (fired = <<>>)
            /\ (CountKinds(call.ret, {"all_clear"}) > 0)
                 <=> (CountKinds(call.ret, RuleKindNames) = 0)
            /\ CountKinds(call.ret, {"all_clear"}) > 0 =>
                 call.ret = <<Alert("all_clear", "")>>

\* a loaded list on which no rule fires
C18_Witness ==
  /\ IsCall("computeAlerts")
  /\ call.txns # <<>>
  /\ call.ret = <<Alert("all_clear", "")>>

\* C19 as stated: for a non-empty list computeAlerts emits the overspending
\* alert exactly when expenseTotal > incomeTotal; otherwise, when
\* incomeTotal > 0, exactly one savings-rate message, whose tier the rate
\* (income - expense) / income * 100 decides: "excellent" when it is > 20,
\* "good" when it is > 10 and not > 20, "aim higher" otherwise; with
\* expense <= income and income = 0 it emits neither.
C19_SavingsTierByRate ==
  (IsCall("computeAlerts") /\ call.txns # <<>>) =>
    LET summary == analyzeTransactions(call.txns)
        income == summary.incomeTotal
        expense == summary.expenseTotal
        tiers == {"excellent", "good", "aim_higher"}
        Emits(kind) == CountKinds(call.ret, {kind}) > 0
    IN /\ Emits("overspending") <=> expense > income
       /\ expense > income => CountKinds(call.ret, tiers) = 0
       /\ (expense <= income /\ income > 0) =>
            /\ CountKinds(call.ret, tiers) = 1
            /\ Emits("excellent") <=> (income - expense) * 100 > 20 * income
            /\ Emits("good") <=> /\ (income - expense) * 100 > 10 * income
                                 /\ ~((income - expense) * 100 > 20 * income)
       /\ (expense <= income /\ income = 0) =>
            CountKinds(call.ret, tiers \cup {"overspending"}) = 0

\* C19 amended: as C19, with the tier decided by the savings rate rounded
\* to one decimal, halves upwards: "excellent" when the rounded rate is
\* > 20, which is a rate of 20.05 or more, "good" when it is > 10 and not
\* > 20, which is a rate from 10.05 up to less than 20.05, "aim higher"
\* otherwise.
C19_SavingsTierByRoundedRate ==
  (IsCall("computeAlerts") /\ call.txns # <<>>) =>
    LET summary == analyzeTransactions(call.txns)
        income == summary.incomeTotal
        expense == summary.expenseTotal
        tiers == {"excellent", "good", "aim_higher"}
        Emits(kind) == CountKinds(call.ret, {kind}) > 0
    IN /\ Emits("overspending") <=> expense > income
       /\ expense > income => CountKinds(call.ret, tiers) = 0
       /\ (expense <= income /\ income > 0) =>
            /\ CountKinds(call.ret, tiers) = 1
            /\ Emits("excellent") <=> 2000 * (income - expense) >= 401 * income
            /\ Emits("good") <=> /\ 2000 * (income - expense) >= 201 * income
                                 /\ ~(2000 * (income - expense) >= 401 * income)
       /\ (expense <= income /\ income = 0) =>
            CountKinds(call.ret, tiers \cup {"overspending"}) = 0

\* a savings rate above 20 that prints as 20.0
C19_Witness ==
  /\ IsCall("computeAlerts")
  /\ LET summary == analyzeTransactions(call.txns)
     IN /\ summary.incomeTotal > 0
        /\ (summary.incomeTotal - summary.expenseTotal) * 100
             > 20 * summary.incomeTotal
  /\ CountKinds(call.ret, {"good"}) = 1

MonthOf(t) == monthKey(NewDate(t.date[1]))

\* the absolute sum of the amounts of category c in month m
MonthCategorySpend(txns, m, c) ==
  Abs(PlainSum(SelectSeq(txns, LAMBDA t :
        ~dateSkipped(t) /\ MonthOf(t) = m /\ categoryOf(t) = c)))

\* the categories with a record in month a or month b
CategoriesOfMonths(txns, a, b) ==
  {categoryOf(txns[i]) :
     i \in {j \in 1..Len(txns) :
              ~dateSkipped(txns[j]) /\ MonthOf(txns[j]) \in {a, b}}}

\* how often the list holds the alert of this kind for this category
CountAlert(alerts, kind, c) ==
  Cardinality({i \in 1..Len(alerts) : alerts[i] = Alert(kind, c)})

\* every spike or reduction alert names a category of the last two months
CategoryAlertsNamePresent(alerts, present) ==
  \A i \in 1..Len(alerts) :
    alerts[i].kind \in {"spike", "reduced"} => alerts[i].cat \in present

\* C21 as stated: for each category present in either of the last two
\* months, with prior and latest the absolute category sums of those months,
\* computeAlerts emits a spike alert exactly when latest >= 1.3 x prior and
\* latest > 500, and otherwise a cost-reduction commendation exactly when
\* latest <= 0.7 x prior and prior > 500; at most one of the two per
\* category.
C21_SpikeAtOrAboveFactor ==
  IsCall("computeAlerts") =>
    LET monthly == groupByMonth(call.txns) IN
    IF Len(monthly) < 2
      THEN CountKinds(call.ret, {"spike", "reduced"}) = 0
    ELSE
      LET a == monthly[Len(monthly) - 1].month
          b == monthly[Len(monthly)].month
          present == CategoriesOfMonths(call.txns, a, b)
      IN /\ CategoryAlertsNamePresent(call.ret, present)
         /\ \A c \in present :
              LET prior == MonthCategorySpend(call.txns, a, c)
                  latest == MonthCategorySpend(call.txns, b, c)
                  spike == 10 * latest >= 13 * prior /\ latest > 500 * Unit
                  reduced == /\ ~spike
                             /\ 10 * latest <= 7 * prior
                             /\ prior > 500 * Unit
              IN /\ CountAlert(call.ret, "spike", c) = (IF spike THEN 1 ELSE 0)
                 /\ CountAlert(call.ret, "reduced", c)
                      = (IF reduced THEN 1 ELSE 0)

\* C21 amended: as C21 with strict comparisons: a spike alert exactly when
\* latest > 1.3 x prior and latest > 500, and otherwise a cost-reduction
\* commendation exactly when latest < 0.7 x prior and prior > 500; a
\* category at exactly 1.3 or 0.7 times its prior sum gets no alert.
C21_SpikeAboveFactor ==
  IsCall("computeAlerts") =>
    LET monthly == groupByMonth(call.txns) IN
    IF Len(monthly) < 2
      THEN CountKinds(call.ret, {"spike", "reduced"}) = 0
    ELSE
      LET a == monthly[Len(monthly) - 1].month
          b == monthly[Len(monthly)].month
          present == CategoriesOfMonths(call.txns, a, b)
      IN /\ CategoryAlertsNamePresent(call.ret, present)
         /\ \A c \in present :
              LET prior == MonthCategorySpend(call.txns, a, c)
                  latest == MonthCategorySpend(call.txns, b, c)
                  spike == 10 * latest > 13 * prior /\ latest > 500 * Unit
                  reduced == /\ ~spike
                             /\ 10 * latest < 7 * prior
                             /\ prior > 500 * Unit
              IN /\ CountAlert(call.ret, "spike", c) = (IF spike THEN 1 ELSE 0)
                 /\ CountAlert(call.ret, "reduced", c)
                      = (IF reduced THEN 1 ELSE 0)

\* categories at exactly 1.3 and 0.7 times their prior sums, and no alert
\* for either
C21_Witness ==
  /\ IsCall("computeAlerts")
  /\ LET monthly == groupByMonth(call.txns)
     IN /\ Len(monthly) = 2
        /\ \E c, d \in CategoriesOfMonths(call.txns, monthly[1].month,
                                           monthly[2].month) :
             /\ 10 * MonthCategorySpend(call.txns, monthly[2].month, c)
                  = 13 * MonthCategorySpend(call.txns, monthly[1].month, c)
             /\ 10 * MonthCategorySpend(call.txns, monthly[2].month, d)
                  = 7 * MonthCategorySpend(call.txns, monthly[1].month, d)
             /\ MonthCategorySpend(call.txns, monthly[1].month, c) > 500 * Unit
             /\ MonthCategorySpend(call.txns, monthly[1].month, d) > 500 * Unit
  /\ CountKinds(call.ret, {"spike", "reduced"}) = 0

\* C22: computeAlerts emits the "top expense" advisory exactly when at least
\* one category has a negative sum and the magnitude of the most negative
\* category sum exceeds 1000; the advisory names that most negative
\* category, and at most one such advisory is emitted.
C22_TopExpenseAboveFloor ==
  (IsCall("computeAlerts") /\ call.txns # <<>>) =>
    LET summary == analyzeTransactions(call.txns)
        negative == NegativeCategories(summary)
        Sum(c) == ValueAt(summary.byCategory, c)
        advisories == SelectSeq(call.ret, LAMBDA x : x.kind = "top_expense")
    IN /\ Len(advisories) <= 1
       /\ (Len(advisories) = 1) <=>
            \E c \in negative : -Sum(c) > 1000 * Unit
       /\ Len(advisories) = 1 =>
            /\ advisories[1].cat \in negative
            /\ \A c \in negative : Sum(advisories[1].cat) <= Sum(c)

\* the advisory names a category that is not the first one listed
C22_Witness ==
  /\ IsCall("computeAlerts")
  /\ LET summary == analyzeTransactions(call.txns)
     IN /\ Cardinality(NegativeCategories(summary)) >= 2
        /\ \E i \in 1..Len(call.ret) :
             /\ call.ret[i].kind = "top_expense"
             /\ call.ret[i].cat # summary.byCategory[1].k
             /\ summary.byCategory[1].v < 0

\* the rule an alert comes from
RuleOf(kind) ==
  IF kind \in {"overspending", "excellent", "good", "aim_higher"} THEN 1
  ELSE IF kind \in {"net_drop", "positive_trend"} THEN 2
  ELSE IF kind \in {"spike", "reduced"} THEN 3
  ELSE IF kind = "top_expense" THEN 4
  ELSE 0

\* the alerts of one rule, in the order they have in the list
AlertsOfRule(alerts, r) == SelectSeq(alerts, LAMBDA x : RuleOf(x.kind) = r)

\* C23: the alerts returned by computeAlerts are in rule order: the
\* overspending or savings-rate message (rule 1) before the month-over-month
\* net message (rule 2), before every category spike or cost-reduction
\* message (rule 3), before the top-expense advisory (rule 4); and each
\* rule fires whether or not an earlier rule fired: what the list holds of
\* a rule is what that rule alone yields.
C23_AlertsInRuleOrder ==
  (IsCall("computeAlerts") /\ call.txns # <<>>) =>
    LET summary == analyzeTransactions(call.txns)
    IN /\ \A i, j \in 1..Len(call.ret) :
            i < j => RuleOf(call.ret[i].kind) <= RuleOf(call.ret[j].kind)
       /\ AlertsOfRule(call.ret, 1) = budgetAlerts(summary)
       /\ AlertsOfRule(call.ret, 2) = trendAlerts(groupByMonth(call.txns))
       /\ AlertsOfRule(call.ret, 3) = categoryAlerts(call.txns)
       /\ AlertsOfRule(call.ret, 4) = topExpenseAlerts(summary)

\* all four rules fire, rule 3 more than once
C23_Witness ==
  /\ IsCall("computeAlerts")
  /\ \A r \in 1..4 : Len(AlertsOfRule(call.ret, r)) >= 1
  /\ Len(AlertsOfRule(call.ret, 3)) >= 2

\* C24: for every transaction list of length n, buildSummaryContext returns
\* samples equal to the first min(50, n) records in input order, forecast
\* equal to the 3-month forecastSavings sequence, byMonth equal to
\* groupByMonth of the full list, and meta.totalTxns equal to n: the totals
\* are taken over the full list, not over the sample.
C24_ContextSamplesFirstFifty ==
  IsCall("buildSummaryContext") =>
    LET n == Len(call.txns) IN
    /\ call.ret.samples = SubSeq(call.txns, 1, Min(50, n))
    /\ call.ret.forecast = forecastSavings(call.txns, 3).forecast
    /\ Len(call.ret.forecast) = 3
    /\ call.ret.byMonth = groupByMonth(call.txns)
    /\ call.ret.meta.totalTxns = n
    /\ call.ret.meta.netTotal = PlainSum(call.txns)

\* a list longer than the sample
C24_Witness ==
  /\ IsCall("buildSummaryContext")
  /\ Len(call.txns) > 50
  /\ Len(call.ret.samples) = 50
  /\ call.ret.samples[50] = call.txns[50]

\* what a call returns when it is the only call ever made on its input
ResultAlone(c) ==
  CASE c.fn = "analyzeTransactions" -> analyzeTransactions(c.txns)
    [] c.fn = "groupByMonth"        -> groupByMonth(c.txns)
    [] c.fn = "forecastSavings"     -> forecastSavings(c.txns, c.months)
    [] c.fn = "buildSummaryContext" -> buildSummaryContext(c.txns)
    [] c.fn = "computeAlerts"       -> computeAlerts(c.txns)
    [] c.fn = "suggestBudget"       -> suggestBudget(c.txns, c.targetSavings)
    [] c.fn = "generateGoalPlan"    ->
         generateGoalPlan(c.txns, c.goalAmount, c.months)

EntryPoints ==
  {"analyzeTransactions", "groupByMonth", "forecastSavings",
   "buildSummaryContext", "computeAlerts", "suggestBudget",
   "generateGoalPlan"}

TypedIncomeBelowZero(t) == t.type = Some("income") /\ t.amount < 0

\* C26: analyzeTransactions computes incomeTotal as the sum of the amounts
\* of the transactions with type "income" or amount > 0, and expenseTotal
\* as the sum of the absolute amounts of the transactions with amount < 0;
\* for every list in which no transaction has type "income" together with
\* a negative amount, incomeTotal - expenseTotal equals netTotal.
C26_IncomeAndExpenseTotals ==
  IsCall("analyzeTransactions") =>
    LET txns == call.txns
        earned == SelectSeq(txns, LAMBDA t : t.type = Some("income") \/ t.amount > 0)
        spent == SelectSeq(txns, LAMBDA t : t.amount < 0)
    IN /\ call.ret.incomeTotal = PlainSum(earned)
       /\ call.ret.expenseTotal = -PlainSum(spent)
       /\ (\A i \in 1..Len(txns) : ~TypedIncomeBelowZero(txns[i])) =>
            call.ret.incomeTotal - call.ret.expenseTotal = call.ret.netTotal

C26_Witness ==
  /\ IsCall("analyzeTransactions")
  /\ call.txns = Scenario
  /\ call.ret.incomeTotal > 0
  /\ call.ret.expenseTotal > 0
  /\ call.ret.incomeTotal - call.ret.expenseTotal = call.ret.netTotal

\* a record whose date is there and parses
HasParsableDate(t) == Truthy(t.date) /\ NewDate(t.date[1]).valid

\* C27: in every bucket returned by groupByMonth, income >= 0,
\* expense >= 0 and net = income - expense; and the sum of the nets over
\* all buckets equals the sum of the amounts of exactly those transactions
\* that have a parsable date.
C27_BucketsBalance ==
  IsCall("groupByMonth") =>
    LET buckets == call.ret
        nets == [i \in 1..Len(buckets) |-> buckets[i].net]
    IN /\ \A i \in 1..Len(buckets) :
            /\ buckets[i].income >= 0
            /\ buckets[i].expense >= 0
            /\ buckets[i].net = buckets[i].income - buckets[i].expense
       /\ SumSeq(nets) = PlainSum(SelectSeq(call.txns, HasParsableDate))

\* a month with an expense, in a list that also holds a record without a
\* parsable date
C27_Witness ==
  /\ IsCall("groupByMonth")
  /\ \E i \in 1..Len(call.ret) : call.ret[i].expense > 0
  /\ \E i \in 1..Len(call.txns) :
       ~HasParsableDate(call.txns[i]) /\ call.txns[i].amount # 0

\* a tenth of the combined absolute spend of the categories with a negative
\* sum, in 1 / Percent of a hundredth
TenthOfNegativeSpend(summary) ==
  CutPercent *
    SumSeq([i \in 1..Len(summary.byCategory) |->
              IF summary.byCategory[i].v < 0 THEN -summary.byCategory[i].v ELSE 0])

\* C28: in suggestBudget the cuts, before rounding, total exactly
\* min(neededToSave, 10% of the combined absolute spend of all categories
\* with a negative sum); every suggestion other than the last cuts exactly
\* 10% of its category's spend, every suggestion has a strictly positive
\* cut, and the suggestions list is non-empty whenever neededToSave > 0 and
\* at least one category has a negative sum.
C28_CutsTotalNeedOrTenth ==
  IsCall("suggestBudget") =>
    LET summary == analyzeTransactions(call.txns)
        sugg == call.ret.suggestions
        cuts == call.reductions
        need == NeededToSave(call.txns, call.targetSavings) * Percent
    IN /\ Len(cuts) = Len(sugg)
       /\ SumSeq(cuts) = Min(need, TenthOfNegativeSpend(summary))
       /\ \A k \in 1..(Len(cuts) - 1) :
            cuts[k] = sugg[k].currentSpend * CutPercent
       /\ \A k \in 1..Len(cuts) : cuts[k] > 0
       /\ (need > 0 /\ NegativeCategories(summary) # {}) => sugg # <<>>

\* the need runs out inside the second of six categories
C28_Witness ==
  /\ IsCall("suggestBudget")
  /\ Cardinality(NegativeCategories(analyzeTransactions(call.txns))) = 6
  /\ Len(call.reductions) = 2
  /\ call.reductions[2] < call.ret.suggestions[2].currentSpend * CutPercent
  /\ call.reductions[1] + call.reductions[2]
       = NeededToSave(call.txns, call.targetSavings) * Percent

\* the requests to /api/ask that are in flight
InFlight(reqs) == {i \in 1..Len(reqs) : reqs[i].state = "inflight"}

\* the pairs of the answered requests, in the order the prompts were sent
RECURSIVE PairsInOrderSent(_)
PairsInOrderSent(reqs) ==
  IF reqs = <<>> THEN <<>>
  ELSE LET last == reqs[Len(reqs)]
       IN PairsInOrderSent(SubSeq(reqs, 1, Len(reqs) - 1)) \o
            (IF last.state = "answered"
               THEN << [role |-> "user", text |-> trim(last.prompt)],
                       [role |-> "assistant", text |-> last.answer] >>
               ELSE <<>>)

\* C29: in the chat page at most one request to /api/ask is in flight at
\* any time: sendMessage cannot start a new request while loading is true,
\* whether triggered by the Send button or by the Enter key, so the
\* transcript grows by one (user, assistant) pair per request, in the
\* order the prompts were sent.
C29_OneRequestInFlight ==
  [][/\ loading => Len(requests') = Len(requests)
     /\ Cardinality(InFlight(requests')) <= 1
     /\ messages' = PairsInOrderSent(requests')]_vars

\* the four fixed fallbacks, as the claim lists them
FixedFallbacks ==
  << "http://127.0.0.1:8001/agent/finwise_agent/run",
     "http://127.0.0.1:8001/agents/finwise_agent/run",
     "http://127.0.0.1:8001/agent/finwise_agent/execute",
     "http://127.0.0.1:8001/agents/finwise_agent/execute" >>

\* the explicit candidate, when ADK_RUN_PATH is set
ExplicitFirst ==
  IF explicitPath \in {Some("/custom/run"), Some("custom/run")}
    THEN << "http://127.0.0.1:8001/custom/run" >> ELSE <<>>

\* the paths of the document that POST of this agent can run or execute
DiscoveredPaths ==
  IF openapi = Undefined THEN {}
  ELSE {openapi[1][i].path : i \in {j \in 1..Len(openapi[1]) :
          isAgentRunPath(openapi[1][j].path, openapi[1][j].post, "finwise_agent")}}

\* C30: the agent proxy POST tries the candidate upstream URLs strictly in
\* the order: explicit ADK_RUN_PATH (if set), then the four fixed fallbacks
\* (/agent/<name>/run, /agents/<name>/run, /agent/<name>/execute,
\* /agents/<name>/execute), then the discovered paths; it returns the
\* response of the first candidate whose status is neither 404 nor 405 and
\* contacts no later candidate; if every candidate answers 404 or 405 it
\* returns the status of the last candidate tried.
C30_CandidatesTriedInOrder ==
  (pc \in {"fetch", "done"} /\ candidates # <<>>) =>
    LET fixed == ExplicitFirst \o FixedFallbacks
        tried == Len(contacted)
    IN /\ SubSeq(candidates, 1, Len(fixed)) = fixed
       /\ {candidates[i] : i \in (Len(fixed) + 1)..Len(candidates)}
            = {"http://127.0.0.1:8001" \o p : p \in DiscoveredPaths}
       /\ Len(candidates) = Len(fixed) + Cardinality(DiscoveredPaths)
       /\ tried <= Len(candidates)
       /\ \A i \in 1..tried :
            /\ contacted[i].url = candidates[i]
            /\ i < tried => contacted[i].outcome \in {404, 405}
       /\ pc = "fetch" =>
            /\ tried < Len(candidates)
            /\ \A i \in 1..tried : contacted[i].outcome \in {404, 405}
       /\ pc = "done" =>
            /\ tried >= 1
            /\ LET last == contacted[tried]
               IN /\ last.outcome \in {404, 405} =>
                       /\ tried = Len(candidates)
                       /\ response[1].status = last.outcome
                  /\ last.outcome \in {200, 500} =>
                       response = Some([status |-> last.outcome,
                                        upstream |-> Some(last.url)])

\* the explicit path and the four fallbacks answer 404 or 405, and a
\* discovered path answers
C30_Witness ==
  /\ pc = "done"
  /\ ExplicitFirst # <<>>
  /\ Len(contacted) > 5
  /\ Len(contacted) < Len(candidates)
  /\ response[1].status = 200
  /\ response[1].upstream = Some(contacted[Len(contacted)].url)

====
